---- MODULE Spec2Model ----
(***************************************************************************)
(* Brightline death tracker: the incident deduplicator                     *)
(* (scripts/death_tracker/deduplicator.py), the sheet it is fed from       *)
(* (sheets_manager.py) and the two workflows of main.py that drive them.   *)
(*                                                                         *)
(* Text is a sequence of one-character strings, so that lower(), strip(),  *)
(* rstrip("/"), split(",") and the fuzzy ratios are computed character by  *)
(* character.  An Optional value is None (the empty tuple) or Some(x) (the *)
(* one-element tuple <<x>>).  A date is a day number.                      *)
(***************************************************************************)
EXTENDS Integers, Sequences, FiniteSets, TLC

VARIABLES
    sheet,              \* the worksheet's rows below the header: sheet[k] is row k + 1
    existing_records,   \* Deduplicator.existing_records, the pool
    pool_uid,           \* history: pool_uid[i] is the identity of the incident of pool record i
    loaded,             \* history: how many pool records __init__ built from the ledger
    added,              \* history: the records add_record was called with, in order
    pc,                 \* where main() is
    articles,           \* what get_all_articles returned
    filtered_articles,  \* the articles that passed the first loop
    fra_incidents,      \* what get_recent_fatalities returned
    idx,                \* position of the running loop in its list
    call,               \* the last call made: its arguments and result
    config,             \* the Deduplicator's date_tolerance and thresholds
    worksheet,          \* update_coordinates: the Media rows below the header
    fra_records,        \* update_coordinates.main: what the FRA fetch returned
    sheet_records,      \* update_coordinates.main: the SheetRecords read
    coordinate_updates, \* update_coordinates.main: the queued (row, lat, lon)
    potential_matches,  \* update_coordinates.main: the entries for review
    review_sheet        \* the "DOT Match Review" rows below the header

\* the state of the two coordinate scripts
coords_vars == <<worksheet, fra_records, sheet_records, coordinate_updates,
                 potential_matches, review_sheet>>

\* the state of the tracker's run
tracker_vars == <<sheet, existing_records, pool_uid, loaded, added, articles,
                  filtered_articles, fra_incidents, config>>

vars == <<sheet, existing_records, pool_uid, loaded, added, pc, articles,
          filtered_articles, fra_incidents, idx, call, config, coords_vars>>

\* ------------------------------------------------------------------ bounds
\* rows of the ledger when the run starts
MaxLedger == 1
\* records in the pool
MaxPool == 2

\* ------------------------------------------------------- program constants
DATE_TOLERANCE_DAYS == 1
NAME_SIMILARITY_THRESHOLD == 85
LOCATION_SIMILARITY_THRESHOLD == 80

\* --------------------------------------------------------------- Optional
None == <<>>
Some(x) == <<x>>
IsNone(o) == o = None
Val(o) == o[1]

Min(S) == CHOOSE x \in S : \A y \in S : x <= y
Max(S) == CHOOSE x \in S : \A y \in S : x >= y

\* ------------------------------------------------------------ str methods
UpperCase == <<"A","B","C","D","E","F","G","H","I","J","K","L","M",
               "N","O","P","Q","R","S","T","U","V","W","X","Y","Z">>
LowerCase == <<"a","b","c","d","e","f","g","h","i","j","k","l","m",
               "n","o","p","q","r","s","t","u","v","w","x","y","z">>
Whitespace == {" ", "\t", "\n", "\r"}

lower_char(c) ==
    IF \E i \in 1..Len(UpperCase) : UpperCase[i] = c
    THEN LowerCase[CHOOSE i \in 1..Len(UpperCase) : UpperCase[i] = c]
    ELSE c

\* str.lower()
lower(s) == [i \in 1..Len(s) |-> lower_char(s[i])]

\* str.rstrip(chars)
RECURSIVE rstrip(_, _)
rstrip(s, chars) ==
    IF Len(s) > 0 /\ s[Len(s)] \in chars
    THEN rstrip(SubSeq(s, 1, Len(s) - 1), chars)
    ELSE s

\* str.lstrip()
RECURSIVE lstrip(_)
lstrip(s) ==
    IF Len(s) > 0 /\ s[1] \in Whitespace THEN lstrip(Tail(s)) ELSE s

\* str.strip()
strip(s) == rstrip(lstrip(s), Whitespace)

\* str.split(sep) for a one-character separator: the pieces between the
\* separators, empty pieces included
RECURSIVE split(_, _)
split(s, sep) ==
    IF \E i \in 1..Len(s) : s[i] = sep
    THEN LET i == Min({k \in 1..Len(s) : s[k] = sep})
         IN <<SubSeq(s, 1, i - 1)>> \o split(SubSeq(s, i + 1, Len(s)), sep)
    ELSE <<s>>

\* sep.join(parts)
RECURSIVE join(_, _)
join(sep, parts) ==
    IF Len(parts) = 0 THEN <<>>
    ELSE IF Len(parts) = 1 THEN parts[1]
    ELSE parts[1] \o sep \o join(sep, Tail(parts))

\* --------------------------------------------- fuzzywuzzy on difflib
\* Every operator below hands a value that is used more than once to a
\* helper as an argument, so that it is computed once.

\* a[i..i+k-1] = b[j..j+k-1], inside a[..ahi] and b[..bhi]
Fits(a, ahi, b, bhi, i, j, k) ==
    /\ i + k - 1 <= ahi
    /\ j + k - 1 <= bhi
    /\ \A t \in 0..(k - 1) : a[i + t] = b[j + t]

\* the sizes of the common blocks of a[alo..ahi] and b[blo..bhi]
BlockSizes(a, alo, ahi, b, blo, bhi) ==
    {k \in 1..Min({ahi - alo + 1, bhi - blo + 1}) :
        \E i \in alo..ahi, j \in blo..bhi : Fits(a, ahi, b, bhi, i, j, k)}

\* the block of size k that starts at i in a: the earliest one in b
BlockAt(a, ahi, b, blo, bhi, i, k) ==
    <<i, Min({y \in blo..bhi : Fits(a, ahi, b, bhi, i, y, k)}), k>>

\* the block of size k that starts earliest in a
EarliestBlock(a, alo, ahi, b, blo, bhi, k) ==
    BlockAt(a, ahi, b, blo, bhi,
            Min({x \in alo..ahi :
                    \E y \in blo..bhi : Fits(a, ahi, b, bhi, x, y, k)}),
            k)

LongestOf(a, alo, ahi, b, blo, bhi, sizes) ==
    IF sizes = {} THEN <<alo, blo, 0>>
    ELSE EarliestBlock(a, alo, ahi, b, blo, bhi, Max(sizes))

\* SequenceMatcher.find_longest_match on a[alo..ahi], b[blo..bhi] (1-based,
\* inclusive): the longest common block, the one starting earliest in a and,
\* among those, earliest in b; <<i, j, size>>
find_longest_match(a, alo, ahi, b, blo, bhi) ==
    LongestOf(a, alo, ahi, b, blo, bhi, BlockSizes(a, alo, ahi, b, blo, bhi))

\* the recursion of SequenceMatcher.get_matching_blocks: the longest block
\* m, the blocks to its left before it and the blocks to its right after it
RECURSIVE matching_blocks(_, _, _, _, _, _)
BlocksAround(a, alo, ahi, b, blo, bhi, m) ==
    IF m[3] = 0 THEN <<>>
    ELSE matching_blocks(a, alo, m[1] - 1, b, blo, m[2] - 1)
         \o <<m>>
         \o matching_blocks(a, m[1] + m[3], ahi, b, m[2] + m[3], bhi)

matching_blocks(a, alo, ahi, b, blo, bhi) ==
    IF alo > ahi \/ blo > bhi THEN <<>>
    ELSE BlocksAround(a, alo, ahi, b, blo, bhi,
                      find_longest_match(a, alo, ahi, b, blo, bhi))

\* SequenceMatcher.get_matching_blocks, with its closing (len a, len b, 0)
get_matching_blocks(a, b) ==
    matching_blocks(a, 1, Len(a), b, 1, Len(b))
    \o << <<Len(a) + 1, Len(b) + 1, 0>> >>

RECURSIVE SumSizes(_)
SumSizes(blocks) ==
    IF Len(blocks) = 0 THEN 0 ELSE blocks[1][3] + SumSizes(Tail(blocks))

\* SequenceMatcher.ratio() = 2.0 * M / T as the fraction <<2M, T>>
sm_ratio(a, b) == <<2 * SumSizes(get_matching_blocks(a, b)), Len(a) + Len(b)>>

\* round half to even of n / d, from its quotient q and remainder r
RoundHalfEven(q, r, d) ==
    IF 2 * r < d THEN q
    ELSE IF 2 * r > d THEN q + 1
    ELSE IF q % 2 = 0 THEN q ELSE q + 1

\* utils.intr(100 * r) = int(round(100 * r)) for r = f[1] / f[2]
intr100(f) == RoundHalfEven((100 * f[1]) \div f[2], (100 * f[1]) % f[2], f[2])

\* fuzz.ratio(s1, s2) of two strings: 100 when equal, 0 when one is empty
ratio(s1, s2) ==
    IF s1 = s2 THEN 100
    ELSE IF Len(s1) = 0 \/ Len(s2) = 0 THEN 0
    ELSE intr100(sm_ratio(s1, s2))

\* the ratio of shorter against the window of longer that block lines up with
WindowRatio(shorter, longer, block) ==
    sm_ratio(shorter,
             SubSeq(longer,
                    (IF block[2] - block[1] > 0 THEN block[2] - block[1] ELSE 0) + 1,
                    Min({(IF block[2] - block[1] > 0 THEN block[2] - block[1] ELSE 0)
                             + Len(shorter),
                         Len(longer)})))

\* "if r > .995: return 100", else the best rounded score
BestScore(scores) ==
    IF \E f \in scores : 1000 * f[1] > 995 * f[2] THEN 100
    ELSE Max({intr100(f) : f \in scores})

WindowScores(shorter, longer, blocks) ==
    BestScore({WindowRatio(shorter, longer, blocks[n]) : n \in 1..Len(blocks)})

PartialOf(shorter, longer) ==
    WindowScores(shorter, longer, get_matching_blocks(shorter, longer))

\* fuzz.partial_ratio(s1, s2): the shorter string against the windows of the
\* longer one that the matching blocks line up with
partial_ratio(s1, s2) ==
    IF s1 = s2 THEN 100
    ELSE IF Len(s1) = 0 \/ Len(s2) = 0 THEN 0
    ELSE IF Len(s1) <= Len(s2) THEN PartialOf(s1, s2)
    ELSE PartialOf(s2, s1)

\* ------------------------------------------------------- IncidentRecord
\* datetime.strptime(date_str, fmt).date() of a Date cell.  A non-empty cell
\* is <<format it is written in, day>>; parsing succeeds exactly under that
\* format ("%Y" wants four digits of year, "%y" two)
strptime(date_str, fmt) ==
    IF date_str[1] = fmt THEN Some(date_str[2]) ELSE None

\* date.strftime("%m/%d/%Y")
strftime(d) == <<"%m/%d/%Y", d>>

\* if x: for an Optional[str]
Truthy(o) == ~IsNone(o) /\ Len(Val(o)) > 0

\* the comma-separated Source cell: pieces trimmed, empty pieces dropped
parse_source_urls(source_str) ==
    LET pieces == split(source_str, ",")
        kept == SelectSeq(pieces, LAMBDA p : Len(strip(p)) > 0)
    IN [i \in 1..Len(kept) |-> strip(kept[i])]

\* from_sheet_record reading the date of a cell in whatever format it has
from_sheet_record_AnyFormat(record) ==
    [incident_date |-> IF Len(record.Date) > 0 THEN Some(record.Date[2])
                       ELSE None,
     location_city |-> Some(record.Location),
     location_full |-> Some(record.FullLocation),
     victim_name   |-> Some(record.Name),
     source_urls   |-> parse_source_urls(record.Source),
     row_number    |-> Some(record.row_number)]

\* IncidentRecord.from_sheet_record
from_sheet_record(record) ==
    LET date_str == record.Date
        first == IF Len(date_str) > 0 THEN strptime(date_str, "%m/%d/%Y")
                 ELSE None
        incident_date ==
            IF Len(date_str) > 0 /\ IsNone(first)
            THEN strptime(date_str, "%m/%d/%y")
            ELSE first
    IN [incident_date |-> incident_date,
        location_city |-> Some(record.Location),
        location_full |-> Some(record.FullLocation),
        victim_name   |-> Some(record.Name),
        source_urls   |-> parse_source_urls(record.Source),
        row_number    |-> Some(record.row_number)]

\* ---------------------------------------------------------- Deduplicator
\* the default arguments of __init__, which main() constructs the
\* Deduplicator with
DefaultConfig ==
    [date_tolerance |-> DATE_TOLERANCE_DAYS,
     name_threshold |-> NAME_SIMILARITY_THRESHOLD,
     location_threshold |-> LOCATION_SIMILARITY_THRESHOLD]

\* self.date_tolerance, self.name_threshold, self.location_threshold: what
\* __init__ was given, stored as it is
date_tolerance == config.date_tolerance
name_threshold == config.name_threshold
location_threshold == config.location_threshold

Abs(n) == IF n < 0 THEN 0 - n ELSE n

\* abs((new.incident_date - existing.incident_date).days), both dates present
date_diff(new, existing) ==
    Abs(Val(new.incident_date) - Val(existing.incident_date))

\* InDateWindow without the tolerance test
InDateWindow_AnyDate(new, existing) == ~IsNone(existing.incident_date)

\* an existing record that the scan does not skip
InDateWindow(new, existing) ==
    /\ ~IsNone(existing.incident_date)
    /\ date_diff(new, existing) <= date_tolerance

\* the date part of the score
date_points(new, existing) == IF date_diff(new, existing) = 0 THEN 25 ELSE 15

\* name_points granting the partial points without looking at partial_sim
name_points_NoPartialTest(name_sim, partial_sim) ==
    IF name_sim >= name_threshold
    THEN <<50, << <<"name", name_sim>> >> >>
    ELSE IF name_sim >= 70
    THEN <<35, << <<"name_partial", partial_sim>> >> >>
    ELSE <<0, <<>> >>

\* what the two name similarities add: <<points, trace entries>>
name_points(name_sim, partial_sim) ==
    IF name_sim >= name_threshold
    THEN <<50, << <<"name", name_sim>> >> >>
    ELSE IF name_sim >= 70 /\ partial_sim >= 90
    THEN <<35, << <<"name_partial", partial_sim>> >> >>
    ELSE <<0, <<>> >>

\* the victim-name factor
name_factor(new, existing) ==
    IF Truthy(new.victim_name) /\ Truthy(existing.victim_name)
    THEN name_points(ratio(strip(lower(Val(new.victim_name))),
                           strip(lower(Val(existing.victim_name)))),
                     partial_ratio(lower(Val(new.victim_name)),
                                   lower(Val(existing.victim_name))))
    ELSE <<0, <<>> >>

\* city_points with 40 points for the city
city_points_Forty(loc_sim) ==
    IF loc_sim >= location_threshold
    THEN <<40, << <<"city", loc_sim>> >> >>
    ELSE <<0, <<>> >>

city_points(loc_sim) ==
    IF loc_sim >= location_threshold
    THEN <<30, << <<"city", loc_sim>> >> >>
    ELSE <<0, <<>> >>

\* the city factor
city_factor(new, existing) ==
    IF Truthy(new.location_city) /\ Truthy(existing.location_city)
    THEN city_points(ratio(strip(lower(Val(new.location_city))),
                           strip(lower(Val(existing.location_city)))))
    ELSE <<0, <<>> >>

\* full_location_points with the city's 30 points
full_location_points_AsCity(full_loc_sim) ==
    IF full_loc_sim >= location_threshold
    THEN <<30, << <<"location", full_loc_sim>> >> >>
    ELSE <<0, <<>> >>

full_location_points(full_loc_sim) ==
    IF full_loc_sim >= location_threshold
    THEN <<20, << <<"location", full_loc_sim>> >> >>
    ELSE <<0, <<>> >>

\* the full-location factor
full_location_factor(new, existing) ==
    IF Truthy(new.location_full) /\ Truthy(existing.location_full)
    THEN full_location_points(
             partial_ratio(lower(Val(new.location_full)),
                           lower(Val(existing.location_full))))
    ELSE <<0, <<>> >>

\* score and match_factors from the date points and the three factors
Scored(points, n, c, f) ==
    [score |-> points + n[1] + c[1] + f[1],
     match_factors |-> << <<"date">> >> \o n[2] \o c[2] \o f[2]]

\* score and match_factors of one pair inside the date window
pair_score(new, existing) ==
    Scored(date_points(new, existing), name_factor(new, existing),
           city_factor(new, existing), full_location_factor(new, existing))

\* Passes with the gate at the exact-date points
Passes_DateOnly(score) == score >= 25

\* "if score >= 40"
Passes(score) == score >= 40

\* what one pass of the scan yields for pool[i]: nothing when the record is
\* skipped or scores below the gate, else <<pool index, score and factors>>
Appended(i, scored) == IF Passes(scored.score) THEN <<i, scored>> ELSE <<>>

Scanned(pool, new, i) ==
    IF InDateWindow(new, pool[i])
    THEN Appended(i, pair_score(new, pool[i]))
    ELSE <<>>

\* the candidates list, in pool order
candidates(pool, new) ==
    SelectSeq([i \in 1..Len(pool) |-> Scanned(pool, new, i)],
              LAMBDA c : c # <<>>)

\* FirstWithScore taking the last element of that score
FirstWithScore_Last(cs, top) ==
    cs[Max({k \in 1..Len(cs) : cs[k][2].score = top})]

\* the first element of cs that has the score top
FirstWithScore(cs, top) ==
    cs[Min({k \in 1..Len(cs) : cs[k][2].score = top})]

\* max(candidates, key=lambda x: x[1]): the first candidate of maximum score
best_match(cs) ==
    FirstWithScore(cs, Max({cs[k][2].score : k \in 1..Len(cs)}))

\* '"name" in str(factors)': true of the entries name(..) and name_partial(..)
HasNameFactor(factors) ==
    \E k \in 1..Len(factors) : factors[k][1] \in {"name", "name_partial"}

\* match_type_of that takes a score of exactly 70 for less than exact
match_type_of_Above70(score, factors) ==
    IF score > 70 THEN "exact"
    ELSE IF HasNameFactor(factors) THEN "date_name"
    ELSE "date_location"

\* "if score >= 70 ... elif "name" in str(factors) ... else"
match_type_of(score, factors) ==
    IF score >= 70 THEN "exact"
    ELSE IF HasNameFactor(factors) THEN "date_name"
    ELSE "date_location"

\* the MatchResult for the winning candidate
Matched(pool, best) ==
    [is_match |-> TRUE,
     match_type |-> match_type_of(best[2].score, best[2].match_factors),
     matched_record |-> Some(pool[best[1]]),
     match_score |-> best[2].score,
     match_factors |-> best[2].match_factors]

NoMatch(factors) ==
    [is_match |-> FALSE, match_type |-> "no_match", matched_record |-> None,
     match_score |-> 0, match_factors |-> factors]

\* ResultOf reporting, when nothing is a candidate, the record the scan
\* ended on
ResultOf_LastScanned(pool, cs) ==
    IF Len(cs) = 0
    THEN [NoMatch(<<>>) EXCEPT
            !.matched_record = IF Len(pool) = 0 THEN None
                               ELSE Some(pool[Len(pool)])]
    ELSE Matched(pool, best_match(cs))

\* "if not candidates: return ...", else the best match
ResultOf(pool, cs) ==
    IF Len(cs) = 0 THEN NoMatch(<<>>) ELSE Matched(pool, best_match(cs))

\* find_match answering a new record without a date like one that found
\* no candidate
find_match_MissingDateUnmarked(pool, new_incident) ==
    IF IsNone(new_incident.incident_date)
    THEN NoMatch(<<>>)
    ELSE ResultOf(pool, candidates(pool, new_incident))

\* find_match giving a new record without a date the first record of the
\* pool
find_match_DatelessTakesFirst(pool, new_incident) ==
    IF IsNone(new_incident.incident_date)
    THEN IF Len(pool) = 0 THEN NoMatch(<< <<"missing_date">> >>)
         ELSE [is_match |-> TRUE, match_type |-> "date_location",
               matched_record |-> Some(pool[1]), match_score |-> 40,
               match_factors |-> << <<"missing_date">> >>]
    ELSE ResultOf(pool, candidates(pool, new_incident))

\* Deduplicator.find_match
find_match(pool, new_incident) ==
    IF IsNone(new_incident.incident_date)
    THEN NoMatch(<< <<"missing_date">> >>)
    ELSE ResultOf(pool, candidates(pool, new_incident))

\* normalize that leaves trailing slashes in place
normalize_KeepSlash(url) == strip(lower(url))

\* url.lower().strip().rstrip("/")
normalize(url) == rstrip(strip(lower(url)), {"/"})

HoldsUrl(record, normalized_url) ==
    \E k \in 1..Len(record.source_urls) :
        normalize(record.source_urls[k]) = normalized_url

\* Deduplicator.check_url_exists: the first pool record holding the url
check_url_exists(pool, url) ==
    LET hits == {i \in 1..Len(pool) : HoldsUrl(pool[i], normalize(url))}
    IN IF hits = {} THEN None ELSE Some(pool[Min(hits)])

\* add_record putting the record in front
add_record_Front(pool, record) == <<record>> \o pool

\* add_record losing the record
add_record_Lost(pool, record) == pool

\* Deduplicator.add_record
add_record(pool, record) == Append(pool, record)

\* the loop of merge_sources: keep a url unless its normal form was seen
RECURSIVE unique_urls(_, _)
unique_urls(all_urls, seen) ==
    IF Len(all_urls) = 0 THEN <<>>
    ELSE LET normalized == normalize(all_urls[1])
         IN IF normalized \notin seen
            THEN <<all_urls[1]>>
                 \o unique_urls(Tail(all_urls), seen \cup {normalized})
            ELSE unique_urls(Tail(all_urls), seen)

\* Deduplicator.merge_sources
merge_sources(existing, new_sources) ==
    unique_urls(existing.source_urls \o new_sources, {})

\* Deduplicator.__init__ on the rows get_all_records returned
Deduplicator(records) ==
    [i \in 1..Len(records) |-> from_sheet_record(records[i])]

\* -------------------------------------------------------------- the sheet
\* SheetsManager.get_all_records: each row with its row number, from row 2
get_all_records(rows) ==
    [k \in 1..Len(rows) |->
        [Date |-> rows[k].Date, Location |-> rows[k].Location,
         FullLocation |-> rows[k].FullLocation, Name |-> rows[k].Name,
         Source |-> rows[k].Source, row_number |-> k + 1]]

\* the cell a value is written to: None leaves the cell empty
Cell(o) == IF IsNone(o) THEN <<>> ELSE Val(o)

\* SheetsManager._incident_to_row with status "Draft"; uid is the history
\* of which incident the row is
incident_to_row(incident, uid) ==
    [Date |-> IF IsNone(incident.date) THEN <<>> ELSE strftime(Val(incident.date)),
     DOT |-> Cell(incident.dot_incident_num),
     FullLocation |-> Cell(incident.location_full),
     Location |-> Cell(incident.location_city),
     Name |-> Cell(incident.name),
     DOTMatch |-> incident.dot_match,
     NewsSource |-> IF Truthy(incident.source) THEN "Yes" ELSE "No",
     Source |-> Cell(incident.source),
     Lat |-> incident.lat,
     Lon |-> incident.lon,
     uid |-> uid]

\* SheetsManager.add_draft_record: worksheet.insert_row(row_data, index=2)
\* puts the row right under the header and moves every other row one down;
\* the row number it returns is 2
add_draft_record(rows, row_data) == <<row_data>> \o rows
DraftRowNumber == 2

\* list(dict.fromkeys(xs)): first occurrences, compared as they are written
RECURSIVE fromkeys(_, _)
fromkeys(xs, seen) ==
    IF Len(xs) = 0 THEN <<>>
    ELSE IF xs[1] \in seen THEN fromkeys(Tail(xs), seen)
    ELSE <<xs[1]>> \o fromkeys(Tail(xs), seen \cup {xs[1]})

\* SheetsManager.update_sources on the row the worksheet has at row_number
update_sources(rows, row_number, new_sources) ==
    LET k == row_number - 1
        current == rows[k].Source
        pieces == split(current, ",")
        current_sources ==
            IF Len(current) > 0
            THEN [i \in 1..Len(pieces) |-> strip(pieces[i])]
            ELSE <<>>
        all_sources == fromkeys(current_sources \o new_sources, {})
    IN [rows EXCEPT ![k].Source = join(<<",", " ">>, all_sources),
                    ![k].NewsSource = "Yes"]

\* SheetsManager.update_dot_info on the row the worksheet has at row_number
\* (lat, lon: None stands for 0, which leaves the cell empty)
update_dot_info(rows, row_number, dot_incident_num, lat, lon) ==
    LET k == row_number - 1
    IN [rows EXCEPT ![k].DOT = dot_incident_num,
                    ![k].DOTMatch = "Yes",
                    ![k].Lat = lat,
                    ![k].Lon = lon]

\* ------------------------------------------------------------ NewsSearcher
\* index of the first element of s that is in chars, Len(s) + 1 if none
FirstOf(s, chars) ==
    Min({i \in 1..Len(s) : s[i] \in chars} \cup {Len(s) + 1})

SchemeChars ==
    {UpperCase[i] : i \in 1..Len(UpperCase)}
    \cup {LowerCase[i] : i \in 1..Len(LowerCase)}
    \cup {"0", "1", "2", "3", "4", "5", "6", "7", "8", "9", "+", "-", "."}

\* the index of the ":" that ends the scheme of url, 0 when url has none
SchemeEnd(url, colon) ==
    IF /\ colon > 1
       /\ colon <= Len(url)
       /\ \A i \in 1..(colon - 1) : url[i] \in SchemeChars
    THEN colon ELSE 0

HasNetloc(rest) == Len(rest) >= 2 /\ rest[1] = "/" /\ rest[2] = "/"

\* path and query of what stands before the fragment
SplitQuery(scheme, netloc, nofrag, fragment, qmark) ==
    [scheme |-> scheme, netloc |-> netloc,
     path |-> SubSeq(nofrag, 1, qmark - 1),
     query |-> SubSeq(nofrag, qmark + 1, Len(nofrag)),
     fragment |-> fragment]

SplitFragment(scheme, netloc, nofrag, fragment) ==
    SplitQuery(scheme, netloc, nofrag, fragment, FirstOf(nofrag, {"?"}))

\* the fragment of what follows the netloc
SplitTail(scheme, netloc, tail, hash) ==
    SplitFragment(scheme, netloc, SubSeq(tail, 1, hash - 1),
                  SubSeq(tail, hash + 1, Len(tail)))

\* the netloc of after, which ends before delim
SplitNetloc(scheme, after, delim) ==
    SplitTail(scheme, SubSeq(after, 1, delim - 1),
              SubSeq(after, delim, Len(after)),
              FirstOf(SubSeq(after, delim, Len(after)), {"#"}))

\* what follows the scheme: "//" opens a netloc up to "/", "?" or "#"
SplitRest(scheme, rest) ==
    IF HasNetloc(rest)
    THEN SplitNetloc(scheme, SubSeq(rest, 3, Len(rest)),
                     FirstOf(SubSeq(rest, 3, Len(rest)), {"/", "?", "#"}))
    ELSE SplitNetloc(scheme, rest, 1)

\* end is 0 when there is no scheme: the scheme is empty, the rest is url
SplitScheme(url, end) ==
    SplitRest(lower(SubSeq(url, 1, end - 1)), SubSeq(url, end + 1, Len(url)))

SplitUrl(url) == SplitScheme(url, SchemeEnd(url, FirstOf(url, {":"})))

\* urllib.parse.urlparse: leading blanks dropped, then scheme (lower-cased),
\* netloc, path, query and fragment (no url of the model has ";" parameters)
urlparse(raw) == SplitUrl(lstrip(raw))

\* "//" netloc, then the path, with a "/" put before a path that lacks it
WithNetloc(u) ==
    IF Len(u.netloc) > 0
    THEN <<"/", "/">> \o u.netloc
         \o (IF Len(u.path) > 0 /\ u.path[1] # "/" THEN <<"/">> ELSE <<>>)
         \o u.path
    ELSE u.path

WithScheme(u, url) ==
    IF Len(u.scheme) > 0 THEN u.scheme \o <<":">> \o url ELSE url

WithQuery(u, url) ==
    IF Len(u.query) > 0 THEN url \o <<"?">> \o u.query ELSE url

WithFragment(u, url) ==
    IF Len(u.fragment) > 0 THEN url \o <<"#">> \o u.fragment ELSE url

\* urllib.parse.urlunparse of such a result
urlunparse(u) ==
    WithFragment(u, WithQuery(u, WithScheme(u, WithNetloc(u))))

tracking_params ==
    {<<"u","t","m","_","s","o","u","r","c","e">>,
     <<"u","t","m","_","m","e","d","i","u","m">>,
     <<"u","t","m","_","c","a","m","p","a","i","g","n">>,
     <<"u","t","m","_","c","o","n","t","e","n","t">>,
     <<"u","t","m","_","t","e","r","m">>,
     <<"f","b","c","l","i","d">>,
     <<"g","c","l","i","d">>,
     <<"r","e","f">>}

\* the key of a "key=value" piece of a query
ParamKey(piece) == SubSeq(piece, 1, FirstOf(piece, {"="}) - 1)

\* parse_qs keeps a piece that has "=" and a value after it
HasValue(piece) == FirstOf(piece, {"="}) < Len(piece)

\* the pieces of key k, in query order
Group(pieces, k) == SelectSeq(pieces, LAMBDA x : ParamKey(x) = k)

RECURSIVE Grouped(_, _)
Grouped(pieces, ks) ==
    IF Len(ks) = 0 THEN <<>>
    ELSE Group(pieces, ks[1]) \o Grouped(pieces, Tail(ks))

\* the pieces grouped by key, in the order the keys first appear
GroupedByKey(pieces) ==
    Grouped(pieces,
            fromkeys([i \in 1..Len(pieces) |-> ParamKey(pieces[i])], {}))

\* urlencode(parse_qs(query) without the tracking keys, doseq=True) (keys
\* and values of the model hold no character that quoting rewrites)
filter_query(query) ==
    join(<<"&">>,
         GroupedByKey(SelectSeq(split(query, "&"),
                                LAMBDA x : /\ HasValue(x)
                                           /\ lower(ParamKey(x))
                                                \notin tracking_params)))

\* "if parsed.query:" the query without the tracking parameters
Cleaned(parsed) ==
    IF Len(parsed.query) > 0
    THEN [parsed EXCEPT !.query = filter_query(parsed.query)]
    ELSE parsed

LowerNetloc(parsed) == [parsed EXCEPT !.netloc = lower(parsed.netloc)]

\* NewsSearcher._normalize_url
normalize_url(url) == urlunparse(LowerNetloc(Cleaned(urlparse(url))))

\* the deduplication loop of get_all_articles: the first article of each
\* normalized url
RECURSIVE unique_articles(_, _)
Unseen(all_articles, seen_urls, normalized_url) ==
    IF normalized_url \notin seen_urls
    THEN <<all_articles[1]>>
         \o unique_articles(Tail(all_articles), seen_urls \cup {normalized_url})
    ELSE unique_articles(Tail(all_articles), seen_urls)

unique_articles(all_articles, seen_urls) ==
    IF Len(all_articles) = 0 THEN <<>>
    ELSE Unseen(all_articles, seen_urls, normalize_url(all_articles[1]))

\* ------------------------------------------------------------- the inputs
\* days: equal, adjacent and two apart under the default tolerance
Days == 1..(DATE_TOLERANCE_DAYS + 2)

\* s://h/a, the same with a trailing slash and in upper case, and s://h/b
U1 == <<"s", ":", "/", "/", "h", "/", "a">>
U1Slash == U1 \o <<"/">>
U1Upper == <<"S", ":", "/", "/", "H", "/", "A">>
U2 == <<"s", ":", "/", "/", "h", "/", "b">>
Urls == {U1, U1Slash, U1Upper, U2}

\* s://H/a?utm_source=x: U1Slash but for the case of the host, the trailing
\* slash and a tracking parameter
U1Utm ==
    <<"s", ":", "/", "/", "H", "/", "a", "?",
      "u", "t", "m", "_", "s", "o", "u", "r", "c", "e", "=", "x">>

\* a row of the sheet: the cells the run reads or writes, and uid, the
\* history of which incident the row holds
Row(d, city, full, name, src, uid) ==
    [Date |-> d, DOT |-> <<>>, FullLocation |-> full, Location |-> city,
     Name |-> name, DOTMatch |-> "No",
     NewsSource |-> IF Len(src) > 0 THEN "Yes" ELSE "No", Source |-> src,
     Lat |-> None, Lon |-> None, uid |-> uid]

\* the rows a ledger can hold before the run (uid: which incident it is)
LedgerRows(uid) ==
    LET city == <<"M", "i", " ">>
        full == <<"x", " ", "s", "t">>
        name == <<"a", "b", "c">>
    IN {Row(<<"%m/%d/%Y", 2>>, city, full, name, U1, uid),
        Row(<<"%m/%d/%y", 1>>, city, full, name,
            U1 \o <<",", " ">> \o U1Slash \o <<",">> \o U1Upper, uid),
        Row(<<"%Y-%m-%d", 2>>, city, full, name, U1, uid),
        Row(<<>>, city, full, name, U1Slash \o <<",", " ", ",">> \o U2, uid),
        Row(<<"%m/%d/%Y", 2>>, <<>>, <<>>, <<"b">>, <<>>, uid)}

RECURSIVE Ledgers(_)
Ledgers(n) ==
    IF n = 0 THEN {<<>>}
    ELSE Ledgers(n - 1)
         \cup {Append(l, r) : l \in {x \in Ledgers(n - 1) : Len(x) = n - 1},
                              r \in LedgerRows(n)}

Record(d, city, full, name, urls) ==
    [incident_date |-> d, location_city |-> city, location_full |-> full,
     victim_name |-> name, source_urls |-> urls, row_number |-> None]

OptDays == {None} \cup {Some(d) : d \in Days}
NameArgs ==
    {None, Some(<<"a", "B">>), Some(<<"a", "b", "c">>), Some(<<"a", "B", " ">>)}
CityArgs == {None, Some(<<"m", "i">>), Some(<<"b", "o">>)}
FullArgs == {None, Some(<<"x">>), Some(<<"y">>)}

\* a short form of a name and the name
JSmith == <<"J", ".", " ", "S", "m", "i", "t", "h">>
JohnSmith == <<"J", "o", "h", "n", " ", "S", "m", "i", "t", "h">>

\* the records find_match is called with
NewRecords ==
    {Record(d, c, f, n, <<U1>>) :
        d \in OptDays, c \in CityArgs, f \in FullArgs, n \in NameArgs}
    \cup {Record(Some(1), None, None, Some(JSmith), <<U1>>)}

\* the records add_record is called with
AddedRecords ==
    {r \in NewRecords : /\ r.victim_name = Some(<<"a", "b", "c">>)
                        /\ r.location_city \in {None, Some(<<"m", "i">>)}
                        /\ r.location_full = None}
    \cup {Record(Some(2), None, None, None, <<U2, U1Slash>>),
          Record(Some(2), None, None, Some(<<"a", "b", "c", "d", "e">>), <<>>),
          Record(Some(2), None, None, Some(<<"a", "c">>), <<>>),
          Record(Some(2), None, None, Some(JohnSmith), <<>>)}

\* --------------------------------------- the Deduplicator, call by call
NoCall == [op |-> "none"]

\* neither coordinate script has run
NoCoordinatesRun ==
    /\ worksheet = <<>>
    /\ fra_records = <<>>
    /\ sheet_records = <<>>
    /\ coordinate_updates = <<>>
    /\ potential_matches = <<>>
    /\ review_sheet = <<>>

InitDedup ==
    /\ sheet \in Ledgers(MaxLedger)
    /\ existing_records = Deduplicator(get_all_records(sheet))
    /\ pool_uid = [k \in 1..Len(sheet) |-> sheet[k].uid]
    /\ loaded = Len(sheet)
    /\ added = <<>>
    /\ pc = "dedup"
    /\ articles = <<>>
    /\ filtered_articles = <<>>
    /\ fra_incidents = <<>>
    /\ idx = 0
    /\ call = NoCall
    /\ config = DefaultConfig
    /\ NoCoordinatesRun

\* FindMatchCall that takes the record it matched out of the pool
FindMatchCall_TakesMatch ==
    \E n \in NewRecords :
        /\ call = NoCall
        /\ call' = [op |-> "find_match", new |-> n,
                    result |-> find_match(existing_records, n)]
        /\ existing_records' =
                SelectSeq(existing_records,
                          LAMBDA r : Some(r) # call'.result.matched_record)
        /\ UNCHANGED <<coords_vars, config, sheet, pool_uid, loaded, added, pc,
                       articles, filtered_articles, fra_incidents, idx>>

\* a find_match call: the pool is read, never written
FindMatchCall ==
    \E n \in NewRecords :
        /\ call = NoCall
        /\ call' = [op |-> "find_match", new |-> n,
                    result |-> find_match(existing_records, n)]
        /\ UNCHANGED <<coords_vars, config, sheet, existing_records, pool_uid,
                       loaded, added, pc, articles, filtered_articles,
                       fra_incidents, idx>>

CheckUrlCall ==
    \E u \in Urls \cup {<<" ">> \o U1Slash \o <<"/", " ">>, U1Utm} :
        /\ call = NoCall
        /\ call' = [op |-> "check_url_exists", url |-> u,
                    result |-> check_url_exists(existing_records, u)]
        /\ UNCHANGED <<coords_vars, config, sheet, existing_records, pool_uid,
                       loaded, added, pc, articles, filtered_articles,
                       fra_incidents, idx>>

MergeSourcesCall ==
    \E i \in 1..Len(existing_records),
       new_sources \in {<<>>} \cup {<<u>> : u \in Urls}
                      \cup {<<U2, U1Upper>>, <<U1Slash, U1Slash>>} :
        /\ call = NoCall
        /\ call' = [op |-> "merge_sources", existing |-> existing_records[i],
                    new_sources |-> new_sources,
                    result |-> merge_sources(existing_records[i], new_sources)]
        /\ UNCHANGED <<coords_vars, config, sheet, existing_records, pool_uid,
                       loaded, added, pc, articles, filtered_articles,
                       fra_incidents, idx>>

AddRecordCall ==
    \E r \in AddedRecords :
        /\ call = NoCall
        /\ Len(existing_records) < MaxPool
        /\ existing_records' = add_record(existing_records, r)
        /\ pool_uid' = Append(pool_uid, Len(pool_uid) + 1)
        /\ call' = [op |-> "add_record", record |-> r]
        /\ added' = Append(added, r)
        /\ UNCHANGED <<coords_vars, config, sheet, loaded, pc, articles,
                       filtered_articles, fra_incidents, idx>>

\* the caller takes the result; the next call can follow
Return ==
    /\ call # NoCall
    /\ call' = NoCall
    /\ UNCHANGED <<coords_vars, config, sheet, existing_records, pool_uid,
                   loaded, added, pc, articles, filtered_articles,
                   fra_incidents, idx>>

NextDedup ==
    \/ Return
    \/ FindMatchCall
    \/ CheckUrlCall
    \/ MergeSourcesCall
    \/ AddRecordCall

SpecDedup == InitDedup /\ [][NextDedup]_vars

\* ------------------------- the Deduplicator constructed with any arguments
\* the keyword arguments __init__ can be given: the defaults, or one of them
\* negative
Configs ==
    {DefaultConfig,
     [DefaultConfig EXCEPT !.date_tolerance = -1],
     [DefaultConfig EXCEPT !.name_threshold = -1],
     [DefaultConfig EXCEPT !.location_threshold = -1]}

\* the state after Deduplicator(existing_records, date_tolerance=...,
\* name_threshold=..., location_threshold=...): __init__ has no statement
\* that can raise on the three numbers
InitConfig ==
    /\ sheet \in Ledgers(MaxLedger)
    /\ existing_records = Deduplicator(get_all_records(sheet))
    /\ pool_uid = [k \in 1..Len(sheet) |-> sheet[k].uid]
    /\ loaded = Len(sheet)
    /\ added = <<>>
    /\ pc = "dedup"
    /\ articles = <<>>
    /\ filtered_articles = <<>>
    /\ fra_incidents = <<>>
    /\ idx = 0
    /\ call = NoCall
    /\ config \in Configs
    /\ NoCoordinatesRun

SpecConfig == InitConfig /\ [][NextDedup]_vars

\* ------------------------------------------------------ main(): one run
MaxArticles == 2
MaxFra == 1

\* s://H/a and s://h/a?ref=x: the same article as U1 for get_all_articles
U1Host == <<"s", ":", "/", "/", "H", "/", "a">>
U1Ref == U1 \o <<"?", "r", "e", "f", "=", "x">>
ArticleUrls == {U1, U1Slash, U1Host, U1Ref, U2}

RECURSIVE SeqsUpTo(_, _)
SeqsUpTo(S, n) ==
    IF n = 0 THEN {<<>>}
    ELSE SeqsUpTo(S, n - 1)
         \cup {Append(q, x) : q \in {y \in SeqsUpTo(S, n - 1) : Len(y) = n - 1},
                              x \in S}

\* the orders sort() can leave a list in, the publication dates being free
Orderings(q) ==
    {[i \in 1..Len(q) |-> q[f[i]]] :
        f \in {g \in [1..Len(q) -> 1..Len(q)] :
                  \A i, j \in 1..Len(q) : i # j => g[i] # g[j]}}

\* what IncidentExtractor.extract can return for an article, as the
\* IncidentRecord process_news_articles builds from it for the article's url
ExtractedIncidents(url) ==
    {Record(d, Some(<<"m", "i">>), None, n, <<url>>) :
        d \in {None, Some(2), Some(3)},
        n \in {None, Some(<<"a", "b", "c">>)}}

\* the FRAIncident records get_recent_fatalities can return: with a county
\* and coordinates, or with neither
FraRecords ==
    {[incident_number |-> <<"F", "7">>, incident_date |-> d,
      county_name |-> p[1], latitude |-> p[2], longitude |-> p[2]] :
        d \in {None, Some(1), Some(3)},
        p \in {<< <<"M", "I">>, Some(26)>>, << <<>>, None>>}}

\* lines 184-186 and 252-254 of main.py: row_num is what add_draft_record
\* returned, None when it raised, which ends the run before add_record
persist_then_add_Eager(pool, new_record, row_num) ==
    add_record(pool, [new_record EXCEPT !.row_number = row_num])

persist_then_add(pool, new_record, row_num) ==
    IF IsNone(row_num) THEN pool
    ELSE add_record(pool, [new_record EXCEPT !.row_number = row_num])

\* the draft_data of a news article
news_draft(incident, url) ==
    [date |-> incident.incident_date, dot_incident_num |-> None,
     location_full |-> incident.location_full,
     location_city |-> incident.location_city,
     name |-> incident.victim_name, dot_match |-> "No",
     source |-> Some(url), lat |-> None, lon |-> None]

\* the draft_data of an FRA record
fra_draft(fra) ==
    [date |-> fra.incident_date, dot_incident_num |-> Some(fra.incident_number),
     location_full |-> None, location_city |-> Some(fra.county_name),
     name |-> None, dot_match |-> "Yes", source |-> None,
     lat |-> fra.latitude, lon |-> fra.longitude]

\* the state after "deduplicator = Deduplicator(existing_records)"
Init ==
    /\ sheet \in Ledgers(MaxLedger)
    /\ existing_records = Deduplicator(get_all_records(sheet))
    /\ pool_uid = [k \in 1..Len(sheet) |-> sheet[k].uid]
    /\ loaded = Len(sheet)
    /\ added = <<>>
    /\ pc = "search"
    /\ articles = <<>>
    /\ filtered_articles = <<>>
    /\ fra_incidents = <<>>
    /\ idx = 0
    /\ call = NoCall
    /\ config = DefaultConfig
    /\ NoCoordinatesRun

\* news_searcher.get_all_articles: the feeds' articles without the repeats
\* of a normalized url, newest first
GetAllArticles ==
    /\ pc = "search"
    /\ \E all_articles \in SeqsUpTo(ArticleUrls, MaxArticles) :
        articles' \in Orderings(unique_articles(all_articles, {}))
    /\ pc' = "filter"
    /\ idx' = 1
    /\ UNCHANGED <<coords_vars, config, sheet, existing_records, pool_uid,
                   loaded, added, filtered_articles, fra_incidents, call>>

\* one pass of the first loop: an article whose url is in the pool is
\* skipped, another one is kept if the keyword filter passes it
FilterArticle ==
    /\ pc = "filter"
    /\ idx <= Len(articles)
    /\ LET existing == check_url_exists(existing_records, articles[idx])
       IN /\ call' = [op |-> "check_url_exists", url |-> articles[idx],
                      result |-> existing]
          /\ IF ~IsNone(existing)
             THEN UNCHANGED filtered_articles
             ELSE \E passed \in BOOLEAN :
                    filtered_articles' =
                        IF passed THEN Append(filtered_articles, articles[idx])
                        ELSE filtered_articles
    /\ idx' = idx + 1
    /\ UNCHANGED <<coords_vars, config, sheet, existing_records, pool_uid,
                   loaded, added, pc, articles, fra_incidents>>

\* the first loop is over: keyword_filter.save_stats()
FilterDone ==
    /\ pc = "filter"
    /\ idx > Len(articles)
    /\ pc' = "process"
    /\ idx' = 1
    /\ UNCHANGED <<coords_vars, config, sheet, existing_records, pool_uid,
                   loaded, added, articles, filtered_articles, fra_incidents,
                   call>>

InNewsLoop == pc = "process" /\ idx <= Len(filtered_articles)

\* second loop, an article left by one of the three "continue"
ProcessSkip ==
    /\ InNewsLoop
    /\ idx' = idx + 1
    /\ UNCHANGED <<coords_vars, config, sheet, existing_records, pool_uid,
                   loaded, added, pc, articles, filtered_articles,
                   fra_incidents, call>>

\* the record of the call that the run has just made
FindMatchMade(new_record, match_result) ==
    call' = [op |-> "find_match", new |-> new_record, result |-> match_result]

\* "if match_result.matched_record.row_number:" then update_sources
SourcesUpdated(matched, url) ==
    sheet' = IF ~IsNone(matched.row_number) /\ Val(matched.row_number) # 0
             THEN update_sources(sheet, Val(matched.row_number), <<url>>)
             ELSE sheet

\* add_draft_record, then row_number and add_record
DraftAdded(new_record, draft_data, uid) ==
    /\ sheet' = add_draft_record(sheet, incident_to_row(draft_data, uid))
    /\ existing_records' =
            persist_then_add(existing_records, new_record, Some(DraftRowNumber))
    /\ pool_uid' = Append(pool_uid, uid)
    /\ added' = Append(added,
                       [new_record EXCEPT !.row_number = Some(DraftRowNumber)])

\* add_draft_record raises: nothing in main() catches it, the run ends there
DraftFailed(new_record) ==
    /\ existing_records' = persist_then_add(existing_records, new_record, None)
    /\ pc' = "crashed"
    /\ UNCHANGED <<sheet, pool_uid, added, idx>>

NewsMatched(new_record, match_result, url) ==
    /\ match_result.is_match
    /\ FindMatchMade(new_record, match_result)
    /\ SourcesUpdated(Val(match_result.matched_record), url)

\* second loop, the incident matches a pool record: its url goes to the row
\* that record names
ProcessMatched ==
    /\ InNewsLoop
    /\ \E new_record \in ExtractedIncidents(filtered_articles[idx]) :
        NewsMatched(new_record, find_match(existing_records, new_record),
                    filtered_articles[idx])
    /\ idx' = idx + 1
    /\ UNCHANGED <<coords_vars, config, existing_records, pool_uid, loaded,
                   added, pc, articles, filtered_articles, fra_incidents>>

NewsUnmatched(new_record, match_result) ==
    /\ ~match_result.is_match
    /\ FindMatchMade(new_record, match_result)

\* second loop, no match: the draft is inserted and the record joins the pool
ProcessNewDraft ==
    /\ InNewsLoop
    /\ \E new_record \in ExtractedIncidents(filtered_articles[idx]) :
        /\ NewsUnmatched(new_record, find_match(existing_records, new_record))
        /\ DraftAdded(new_record,
                      news_draft(new_record, filtered_articles[idx]),
                      Len(pool_uid) + 1)
    /\ idx' = idx + 1
    /\ UNCHANGED <<coords_vars, config, loaded, pc, articles,
                   filtered_articles, fra_incidents>>

\* second loop, no match and add_draft_record raises
ProcessDraftFails ==
    /\ InNewsLoop
    /\ \E new_record \in ExtractedIncidents(filtered_articles[idx]) :
        /\ NewsUnmatched(new_record, find_match(existing_records, new_record))
        /\ DraftFailed(new_record)
    /\ UNCHANGED <<coords_vars, config, loaded, articles, filtered_articles,
                   fra_incidents>>

\* process_news_articles returns, its lists of articles are gone; on a
\* Monday, or when forced, the FRA records are fetched
NewsDone ==
    /\ pc = "process"
    /\ idx > Len(filtered_articles)
    /\ \E run_fra_check \in BOOLEAN :
        IF run_fra_check
        THEN /\ pc' = "fra"
             /\ fra_incidents' \in SeqsUpTo(FraRecords, MaxFra)
             /\ idx' = 1
        ELSE /\ pc' = "done"
             /\ UNCHANGED <<fra_incidents, idx>>
    /\ articles' = <<>>
    /\ filtered_articles' = <<>>
    /\ UNCHANGED <<coords_vars, config, sheet, existing_records, pool_uid,
                   loaded, added, call>>

InFraLoop == pc = "fra" /\ idx <= Len(fra_incidents)

\* the IncidentRecord process_fra_data builds
fra_record(fra) ==
    Record(fra.incident_date, Some(fra.county_name), None, None, <<>>)

\* "if match_result.matched_record.row_number:" then update_dot_info
DotInfoUpdated(matched, fra) ==
    sheet' = IF ~IsNone(matched.row_number) /\ Val(matched.row_number) # 0
             THEN update_dot_info(sheet, Val(matched.row_number),
                                  fra.incident_number, fra.latitude,
                                  fra.longitude)
             ELSE sheet

\* "if match_result.is_match and match_result.matched_record:"
FraIsMatch(match_result) ==
    match_result.is_match /\ ~IsNone(match_result.matched_record)

FraMatchedWith(fra, match_result) ==
    /\ FraIsMatch(match_result)
    /\ FindMatchMade(fra_record(fra), match_result)
    /\ DotInfoUpdated(Val(match_result.matched_record), fra)

\* FRA loop, the record matches a pool record: the DOT cells of the row that
\* record names are written
FraMatched ==
    /\ InFraLoop
    /\ FraMatchedWith(fra_incidents[idx],
                      find_match(existing_records,
                                 fra_record(fra_incidents[idx])))
    /\ idx' = idx + 1
    /\ UNCHANGED <<coords_vars, config, existing_records, pool_uid, loaded,
                   added, pc, articles, filtered_articles, fra_incidents>>

FraUnmatched(fra, match_result) ==
    /\ ~FraIsMatch(match_result)
    /\ FindMatchMade(fra_record(fra), match_result)

\* FRA loop, no match: the draft is inserted and the record joins the pool
FraNewDraft ==
    /\ InFraLoop
    /\ FraUnmatched(fra_incidents[idx],
                    find_match(existing_records,
                               fra_record(fra_incidents[idx])))
    /\ DraftAdded(fra_record(fra_incidents[idx]),
                  fra_draft(fra_incidents[idx]), Len(pool_uid) + 1)
    /\ idx' = idx + 1
    /\ UNCHANGED <<coords_vars, config, loaded, pc, articles,
                   filtered_articles, fra_incidents>>

\* FRA loop, no match and add_draft_record raises
FraDraftFails ==
    /\ InFraLoop
    /\ FraUnmatched(fra_incidents[idx],
                    find_match(existing_records,
                               fra_record(fra_incidents[idx])))
    /\ DraftFailed(fra_record(fra_incidents[idx]))
    /\ UNCHANGED <<coords_vars, config, loaded, articles, filtered_articles,
                   fra_incidents>>

\* process_fra_data returns
FraDone ==
    /\ pc = "fra"
    /\ idx > Len(fra_incidents)
    /\ pc' = "done"
    /\ UNCHANGED <<coords_vars, config, sheet, existing_records, pool_uid,
                   loaded, added, articles, filtered_articles, fra_incidents,
                   idx, call>>

Next ==
    \/ GetAllArticles
    \/ FilterArticle
    \/ FilterDone
    \/ ProcessSkip
    \/ ProcessMatched
    \/ ProcessNewDraft
    \/ ProcessDraftFails
    \/ NewsDone
    \/ FraMatched
    \/ FraNewDraft
    \/ FraDraftFails
    \/ FraDone

Spec == Init /\ [][Next]_vars

\* ==================================================== update_coordinates.py
\* The county table of lines 462-482, every key with its cities.
FLORIDA_COUNTY_CITIES ==
    <<[county_key |-> <<"b", "r", "o", "w", "a", "r", "d">>,
        cities |->
          {<<"f", "o", "r", "t", " ", "l", "a", "u", "d", "e", "r", "d", "a", "l", "e">>,
           <<"h", "o", "l", "l", "y", "w", "o", "o", "d">>,
           <<"p", "o", "m", "p", "a", "n", "o", " ", "b", "e", "a", "c", "h">>,
           <<"d", "e", "e", "r", "f", "i", "e", "l", "d", " ", "b", "e", "a", "c", "h">>,
           <<"c", "o", "r", "a", "l", " ", "s", "p", "r", "i", "n", "g", "s">>,
           <<"p", "e", "m", "b", "r", "o", "k", "e", " ", "p", "i", "n", "e", "s">>,
           <<"m", "i", "r", "a", "m", "a", "r">>,
           <<"d", "a", "v", "i", "e">>,
           <<"p", "l", "a", "n", "t", "a", "t", "i", "o", "n">>,
           <<"s", "u", "n", "r", "i", "s", "e">>,
           <<"l", "a", "u", "d", "e", "r", "h", "i", "l", "l">>,
           <<"d", "a", "n", "i", "a", " ", "b", "e", "a", "c", "h">>,
           <<"h", "a", "l", "l", "a", "n", "d", "a", "l", "e">>,
           <<"o", "a", "k", "l", "a", "n", "d", " ", "p", "a", "r", "k">>,
           <<"w", "i", "l", "t", "o", "n", " ", "m", "a", "n", "o", "r", "s">>,
           <<"l", "a", "u", "d", "e", "r", "d", "a", "l", "e", " ", "l", "a", "k", "e", "s">>,
           <<"t", "a", "m", "a", "r", "a", "c">>,
           <<"m", "a", "r", "g", "a", "t", "e">>,
           <<"c", "o", "c", "o", "n", "u", "t", " ", "c", "r", "e", "e", "k">>}],
       [county_key |-> <<"p", "a", "l", "m", " ", "b", "e", "a", "c", "h">>,
        cities |->
          {<<"w", "e", "s", "t", " ", "p", "a", "l", "m", " ", "b", "e", "a", "c", "h">>,
           <<"b", "o", "c", "a", " ", "r", "a", "t", "o", "n">>,
           <<"b", "o", "y", "n", "t", "o", "n", " ", "b", "e", "a", "c", "h">>,
           <<"d", "e", "l", "r", "a", "y", " ", "b", "e", "a", "c", "h">>,
           <<"l", "a", "k", "e", " ", "w", "o", "r", "t", "h">>,
           <<"j", "u", "p", "i", "t", "e", "r">>,
           <<"p", "a", "l", "m", " ", "b", "e", "a", "c", "h", " ", "g", "a", "r", "d", "e", "n", "s">>,
           <<"w", "e", "l", "l", "i", "n", "g", "t", "o", "n">>,
           <<"r", "o", "y", "a", "l", " ", "p", "a", "l", "m", " ", "b", "e", "a", "c", "h">>,
           <<"g", "r", "e", "e", "n", "a", "c", "r", "e", "s">>,
           <<"r", "i", "v", "i", "e", "r", "a", " ", "b", "e", "a", "c", "h">>,
           <<"l", "a", "n", "t", "a", "n", "a">>,
           <<"l", "a", "k", "e", " ", "p", "a", "r", "k">>,
           <<"m", "a", "n", "g", "o", "n", "i", "a", " ", "p", "a", "r", "k">>,
           <<"p", "a", "l", "m", " ", "s", "p", "r", "i", "n", "g", "s">>,
           <<"h", "y", "p", "o", "l", "u", "x", "o">>}],
       [county_key |-> <<"m", "i", "a", "m", "i", "-", "d", "a", "d", "e">>,
        cities |->
          {<<"m", "i", "a", "m", "i">>,
           <<"h", "i", "a", "l", "e", "a", "h">>,
           <<"m", "i", "a", "m", "i", " ", "b", "e", "a", "c", "h">>,
           <<"h", "o", "m", "e", "s", "t", "e", "a", "d">>,
           <<"n", "o", "r", "t", "h", " ", "m", "i", "a", "m", "i">>,
           <<"c", "o", "r", "a", "l", " ", "g", "a", "b", "l", "e", "s">>,
           <<"a", "v", "e", "n", "t", "u", "r", "a">>,
           <<"d", "o", "r", "a", "l">>,
           <<"m", "i", "a", "m", "i", " ", "g", "a", "r", "d", "e", "n", "s">>,
           <<"n", "o", "r", "t", "h", " ", "m", "i", "a", "m", "i", " ", "b", "e", "a", "c", "h">>,
           <<"o", "p", "a", "-", "l", "o", "c", "k", "a">>,
           <<"m", "i", "a", "m", "i", " ", "s", "h", "o", "r", "e", "s">>,
           <<"s", "u", "n", "n", "y", " ", "i", "s", "l", "e", "s">>,
           <<"h", "a", "l", "l", "a", "n", "d", "a", "l", "e", " ", "b", "e", "a", "c", "h">>}],
       [county_key |-> <<"b", "r", "e", "v", "a", "r", "d">>,
        cities |->
          {<<"m", "e", "l", "b", "o", "u", "r", "n", "e">>,
           <<"p", "a", "l", "m", " ", "b", "a", "y">>,
           <<"t", "i", "t", "u", "s", "v", "i", "l", "l", "e">>,
           <<"c", "o", "c", "o", "a">>,
           <<"r", "o", "c", "k", "l", "e", "d", "g", "e">>,
           <<"c", "o", "c", "o", "a", " ", "b", "e", "a", "c", "h">>,
           <<"s", "a", "t", "e", "l", "l", "i", "t", "e", " ", "b", "e", "a", "c", "h">>,
           <<"i", "n", "d", "i", "a", "n", " ", "h", "a", "r", "b", "o", "u", "r", " ", "b", "e", "a", "c", "h">>,
           <<"m", "e", "r", "r", "i", "t", "t", " ", "i", "s", "l", "a", "n", "d">>}],
       [county_key |-> <<"o", "r", "a", "n", "g", "e">>,
        cities |->
          {<<"o", "r", "l", "a", "n", "d", "o">>,
           <<"w", "i", "n", "t", "e", "r", " ", "p", "a", "r", "k">>,
           <<"a", "p", "o", "p", "k", "a">>,
           <<"o", "c", "o", "e", "e">>,
           <<"w", "i", "n", "t", "e", "r", " ", "g", "a", "r", "d", "e", "n">>}],
       [county_key |-> <<"v", "o", "l", "u", "s", "i", "a">>,
        cities |->
          {<<"d", "a", "y", "t", "o", "n", "a", " ", "b", "e", "a", "c", "h">>,
           <<"d", "e", "l", "t", "o", "n", "a">>,
           <<"p", "o", "r", "t", " ", "o", "r", "a", "n", "g", "e">>,
           <<"o", "r", "m", "o", "n", "d", " ", "b", "e", "a", "c", "h">>,
           <<"d", "e", "l", "a", "n", "d">>,
           <<"n", "e", "w", " ", "s", "m", "y", "r", "n", "a", " ", "b", "e", "a", "c", "h">>,
           <<"e", "d", "g", "e", "w", "a", "t", "e", "r">>}],
       [county_key |-> <<"i", "n", "d", "i", "a", "n", " ", "r", "i", "v", "e", "r">>,
        cities |->
          {<<"v", "e", "r", "o", " ", "b", "e", "a", "c", "h">>,
           <<"s", "e", "b", "a", "s", "t", "i", "a", "n">>,
           <<"i", "n", "d", "i", "a", "n", " ", "r", "i", "v", "e", "r", " ", "s", "h", "o", "r", "e", "s">>,
           <<"f", "e", "l", "l", "s", "m", "e", "r", "e">>}],
       [county_key |-> <<"s", "t", ".", " ", "l", "u", "c", "i", "e">>,
        cities |->
          {<<"p", "o", "r", "t", " ", "s", "t", ".", " ", "l", "u", "c", "i", "e">>,
           <<"f", "o", "r", "t", " ", "p", "i", "e", "r", "c", "e">>}],
       [county_key |-> <<"m", "a", "r", "t", "i", "n">>,
        cities |->
          {<<"s", "t", "u", "a", "r", "t">>,
           <<"j", "e", "n", "s", "e", "n", " ", "b", "e", "a", "c", "h">>,
           <<"p", "a", "l", "m", " ", "c", "i", "t", "y">>,
           <<"i", "n", "d", "i", "a", "n", "t", "o", "w", "n">>}]>>

\* "a in b" for two str
IsSubstring(a, b) ==
    \E i \in 0..(Len(b) - Len(a)) : SubSeq(b, i + 1, i + Len(a)) = a

\* "any(city in c or c in city for c in cities)"
AnyCity(city, cities) ==
    \E c \in cities : IsSubstring(city, c) \/ IsSubstring(c, city)

\* as matches_county, but an empty city or county is no direct match
matches_county_NonEmpty(city, county) ==
    \/ Len(city) > 0 /\ Len(county) > 0 /\ IsSubstring(city, county)
    \/ Len(city) > 0 /\ Len(county) > 0 /\ IsSubstring(county, city)
    \/ \E k \in 1..Len(FLORIDA_COUNTY_CITIES) :
          /\ IsSubstring(FLORIDA_COUNTY_CITIES[k].county_key, county)
          /\ AnyCity(city, FLORIDA_COUNTY_CITIES[k].cities)

\* lines 491-500, on the lower-cased and trimmed city and county
matches_county(city, county) ==
    \/ IsSubstring(city, county)
    \/ IsSubstring(county, city)
    \/ \E k \in 1..Len(FLORIDA_COUNTY_CITIES) :
          /\ IsSubstring(FLORIDA_COUNTY_CITIES[k].county_key, county)
          /\ AnyCity(city, FLORIDA_COUNTY_CITIES[k].cities)

location_matches_county(city, county) ==
    matches_county(strip(lower(city)), strip(lower(county)))

\* int(s) of a str: the decimal digits, with an optional sign, between
\* optional whitespace; None stands for ValueError
Digits == <<"0", "1", "2", "3", "4", "5", "6", "7", "8", "9">>
IsDigits(t) ==
    Len(t) > 0 /\ \A i \in 1..Len(t) : \E d \in 1..10 : Digits[d] = t[i]

RECURSIVE digits_value(_)
digits_value(t) ==
    IF Len(t) = 0 THEN 0
    ELSE 10 * digits_value(SubSeq(t, 1, Len(t) - 1))
         + (CHOOSE d \in 1..10 : Digits[d] = t[Len(t)]) - 1

signed_int(t) ==
    IF Len(t) > 1 /\ t[1] \in {"+", "-"}
    THEN IF ~IsDigits(Tail(t)) THEN None
         ELSE IF t[1] = "-" THEN Some(0 - digits_value(Tail(t)))
         ELSE Some(digits_value(Tail(t)))
    ELSE IF IsDigits(t) THEN Some(digits_value(t)) ELSE None

int(s) == signed_int(strip(s))

\* str(n) of a natural number
RECURSIVE str_int(_)
str_int(n) ==
    IF n < 10 THEN <<Digits[n + 1]>>
    ELSE str_int(n \div 10) \o <<Digits[(n % 10) + 1]>>

\* "int(sheet_record.age) == fra.age_of_person", False on ValueError
age_equal(parsed, age_of_person) ==
    ~IsNone(parsed) /\ Val(parsed) = age_of_person

\* "if sheet_record.age and fra.age_of_person:" and the comparison under it
age_matches(sheet_record, fra) ==
    /\ Len(sheet_record.age) > 0
    /\ ~IsNone(fra.age_of_person)
    /\ Val(fra.age_of_person) # 0
    /\ age_equal(int(sheet_record.age), Val(fra.age_of_person))

\* A confidence is the sequence of the pieces whose concatenation is the
\* str the code builds; the tier word is the first piece, a number is its
\* digits, and a date under "%m/%d/%Y" is the format and the day's digits.
age_part(sheet_record, fra, piece) ==
    IF age_matches(sheet_record, fra) THEN <<piece>> ELSE <<>>

location_part(sheet_record, fra, piece) ==
    IF location_matches_county(sheet_record.location, fra.county_name)
    THEN <<piece>>
    ELSE <<>>

\* lines 518-521
exact_date_matches(sheet_record, records) ==
    SelectSeq(records, LAMBDA fra : fra.incident_date = sheet_record.date_obj)

\* lines 525-539: the only record of that date
very_high(sheet_record, fra) ==
    <<fra, <<"VERY HIGH", " - Only FRA record on this date">>
           \o age_part(sheet_record, fra, " + age match")
           \o location_part(sheet_record, fra, " + location match")>>

\* lines 562-564: confidence_parts[1:] joined when there is a part
high_confidence(parts) ==
    IF Len(parts) > 0 THEN <<"HIGH", " - ">> \o join(<<" + ">>, parts)
    ELSE <<"HIGH", " - Exact date match">>

\* lines 544-566: one of several records of that date
high(sheet_record, fra) ==
    <<fra, high_confidence(
               location_part(sheet_record, fra, <<"location match">>)
               \o age_part(sheet_record, fra, <<"age match">>))>>

\* lines 577-590
medium(sheet_record, fra) ==
    <<fra, <<"MEDIUM", " - Date off by 1 day (", "%m/%d/%Y">>
           \o str_int(Val(fra.incident_date)) \o <<")">>
           \o location_part(sheet_record, fra, " + location match")
           \o age_part(sheet_record, fra, " + age match")>>

\* lines 592-595
low(fra, days_off) ==
    <<fra, <<"LOW", " - Date off by ">> \o str_int(days_off)
           \o <<" days + location match">>>>

\* as tiered, but the LOW window is four days
tiered_WithinFour(sheet_record, fra, days_off) ==
    IF days_off = 1 THEN <<medium(sheet_record, fra)>>
    ELSE IF /\ days_off <= 4
            /\ location_matches_county(sheet_record.location, fra.county_name)
         THEN <<low(fra, days_off)>>
         ELSE <<>>

\* lines 577 and 592: what the second pass appends for a dated record
tiered(sheet_record, fra, days_off) ==
    IF days_off = 1 THEN <<medium(sheet_record, fra)>>
    ELSE IF /\ days_off <= 3
            /\ location_matches_county(sheet_record.location, fra.county_name)
         THEN <<low(fra, days_off)>>
         ELSE <<>>

\* lines 571-575
second_pass_entry(sheet_record, fra) ==
    IF IsNone(fra.incident_date) THEN <<>>
    ELSE tiered(sheet_record, fra,
                Abs(Val(sheet_record.date_obj) - Val(fra.incident_date)))

\* lines 571-597
RECURSIVE second_pass(_, _)
second_pass(sheet_record, records) ==
    IF Len(records) = 0 THEN <<>>
    ELSE second_pass_entry(sheet_record, Head(records))
         \o second_pass(sheet_record, Tail(records))

\* as passes, but of several records of the date only those with a
\* matching location or age are kept
passes_DropsUncorroborated(sheet_record, records, exact) ==
    IF Len(exact) = 1 THEN <<very_high(sheet_record, exact[1])>>
    ELSE IF Len(exact) > 1
         THEN [i \in 1..Len(SelectSeq(exact, LAMBDA fra :
                        \/ age_matches(sheet_record, fra)
                        \/ location_matches_county(sheet_record.location,
                                                   fra.county_name))) |->
                    high(sheet_record,
                         SelectSeq(exact, LAMBDA fra :
                            \/ age_matches(sheet_record, fra)
                            \/ location_matches_county(sheet_record.location,
                                                       fra.county_name))[i])]
         ELSE second_pass(sheet_record, records)

\* lines 523, 542 and 570 on exact_date_matches
passes(sheet_record, records, exact) ==
    IF Len(exact) = 1 THEN <<very_high(sheet_record, exact[1])>>
    ELSE IF Len(exact) > 1
         THEN [i \in 1..Len(exact) |-> high(sheet_record, exact[i])]
         ELSE second_pass(sheet_record, records)

find_potential_matches(sheet_record, records) ==
    IF IsNone(sheet_record.date_obj) THEN <<>>
    ELSE passes(sheet_record, records,
                exact_date_matches(sheet_record, records))

\* ------------------------------ find_potential_matches, call by call
\* government records in the list find_potential_matches is given
MaxFraRecords == 3

\* the day the ledger records of the calls are dated
LedgerDay == 4

FRARecord(number, d, county, age, lat) ==
    [incident_number |-> number, incident_date |-> d, latitude |-> lat,
     longitude |-> lat, county_name |-> county, age_of_person |-> age]

SheetRecord(row, d, dot, location, age, lat, lon) ==
    [row_number |-> row, date_obj |-> d, dot_incident_num |-> dot,
     location |-> location, age |-> age, lat |-> lat, lon |-> lon]

PalmBeach == <<"P", "A", "L", "M", " ", "B", "E", "A", "C", "H">>
Duval == <<"D", "U", "V", "A", "L">>
BocaRaton == <<"B", "o", "c", "a", " ", "R", "a", "t", "o", "n">>
Boca == <<"B", "o", "c", "a">>

\* government records on the ledger day, one to four days off it and
\* undated; in Palm Beach county, in a county the table does not have, and
\* without a county; aged 45, 0 and unknown
FraRecordArgs ==
    {FRARecord(<<"F", "1">>, Some(LedgerDay), PalmBeach, Some(45), Some(26)),
     FRARecord(<<"F", "2">>, Some(LedgerDay), Duval, None, None),
     FRARecord(<<"F", "3">>, Some(LedgerDay), PalmBeach, Some(0), None),
     FRARecord(<<"F", "4">>, Some(LedgerDay - 1), PalmBeach, Some(45), None),
     FRARecord(<<"F", "5">>, Some(LedgerDay + 1), Duval, None, None),
     FRARecord(<<"F", "6">>, Some(LedgerDay - 2), PalmBeach, None, None),
     FRARecord(<<"F", "7">>, Some(LedgerDay - 3), Duval, None, None),
     FRARecord(<<"F", "8">>, Some(LedgerDay - 4), PalmBeach, None, None),
     FRARecord(<<"F", "9">>, None, PalmBeach, Some(45), None),
     FRARecord(<<"F", "0">>, Some(LedgerDay + 2), <<>>, None, None)}

\* ledger records without a DOT number: dated or not, with a city of the
\* table, a fragment of one, no city, blanks, or a city of no county
SheetRecordArgs ==
    {SheetRecord(2, Some(LedgerDay), <<>>, BocaRaton, <<"4", "5">>, <<>>, <<>>),
     SheetRecord(2, Some(LedgerDay), <<>>, <<>>, <<>>, <<>>, <<>>),
     SheetRecord(2, Some(LedgerDay), <<>>, Boca, <<"0">>, <<>>, <<>>),
     SheetRecord(2, Some(LedgerDay), <<>>, <<" ", " ">>, <<"x">>, <<>>, <<>>),
     SheetRecord(2, Some(LedgerDay), <<>>, <<"T", "a", "m", "p", "a">>,
                 <<" ", "4", "5">>, <<>>, <<>>),
     SheetRecord(2, None, <<>>, BocaRaton, <<"4", "5">>, <<>>, <<>>)}

\* the cities and counties location_matches_county is called with
Cities ==
    {<<>>, <<" ">>, BocaRaton, Boca, <<"T", "a", "m", "p", "a">>,
     <<"P", "a", "l", "m">>,
     <<"B", "o", "c", "a", " ", "R", "a", "t", "o", "n", " ", "B", "e", "a", "c", "h">>}
Counties == {<<>>, <<" ">>, PalmBeach, Duval, <<"P", "a", "l", "m", " ", "B", "e", "a", "c", "h", " ", "C", "o", "u", "n", "t", "y">>}

\* no script runs: the functions of update_coordinates.py are called
InitMatches ==
    /\ sheet = <<>>
    /\ existing_records = <<>>
    /\ pool_uid = <<>>
    /\ loaded = 0
    /\ added = <<>>
    /\ pc = "matches"
    /\ articles = <<>>
    /\ filtered_articles = <<>>
    /\ fra_incidents = <<>>
    /\ idx = 0
    /\ call = NoCall
    /\ config = DefaultConfig
    /\ NoCoordinatesRun

FindPotentialMatchesCall ==
    /\ call = NoCall
    /\ \E sheet_record \in SheetRecordArgs,
          records \in SeqsUpTo(FraRecordArgs, MaxFraRecords) :
        call' = [op |-> "find_potential_matches",
                 sheet_record |-> sheet_record, records |-> records,
                 matches |-> find_potential_matches(sheet_record, records)]
    /\ UNCHANGED <<coords_vars, tracker_vars, pc, idx>>

LocationMatchesCountyCall ==
    /\ call = NoCall
    /\ \E city \in Cities, county \in Counties :
        call' = [op |-> "location_matches_county", city |-> city,
                 county |-> county,
                 result |-> location_matches_county(city, county)]
    /\ UNCHANGED <<coords_vars, tracker_vars, pc, idx>>

NextMatches ==
    \/ Return
    \/ FindPotentialMatchesCall
    \/ LocationMatchesCountyCall

SpecMatches == InitMatches /\ [][NextMatches]_vars

\* --------------------- update_coordinates.main, the review, and
\* --------------------- apply_approved_matches.main
\* rows of the Media sheet when update_coordinates starts
MaxRows == 2

\* str.upper()
upper_char(c) ==
    IF \E i \in 1..Len(LowerCase) : LowerCase[i] = c
    THEN UpperCase[CHOOSE i \in 1..Len(LowerCase) : LowerCase[i] = c]
    ELSE c
upper(s) == [i \in 1..Len(s) |-> upper_char(s[i])]

\* The floats of the model are the whole ones from 0 up: n stands for n.0.
\* str(f) of such a float
str_float(f) == str_int(f) \o <<".", "0">>

\* float(s) of such a cell: digits, then "." and zeros if there is a ".";
\* None stands for ValueError
float_parts(whole, fraction) ==
    IF IsDigits(whole) /\ \A i \in 1..Len(fraction) : fraction[i] = "0"
    THEN Some(digits_value(whole))
    ELSE None
float(s) ==
    float_parts(SubSeq(strip(s), 1, FirstOf(strip(s), {"."}) - 1),
                SubSeq(strip(s), FirstOf(strip(s), {"."}) + 1, Len(strip(s))))

\* "if x:" for an Optional number
Nonzero(o) == ~IsNone(o) /\ Val(o) # 0

\* the cells of a Media row the two scripts read or write
MediaRow(d, dot, location, age, lat, lon) ==
    [Date |-> d, DOT |-> dot, Location |-> location, Age |-> age,
     Lat |-> lat, Lon |-> lon, DOTMatch |-> <<>>, GoogleMap |-> <<>>]

\* rows with and without a DOT number, with both, one or no coordinate
MediaRows ==
    {MediaRow(<<"%m/%d/%Y", LedgerDay>>, <<>>, BocaRaton, <<"4", "5">>,
              <<>>, <<>>),
     MediaRow(<<"%Y-%m-%d", LedgerDay - 1>>, <<" ">>, <<>>, <<>>,
              <<"2", "6", ".", "0">>, <<" ">>),
     MediaRow(<<>>, <<>>, BocaRaton, <<>>, <<>>, <<>>),
     MediaRow(<<"%m/%d/%Y", LedgerDay>>, <<" ", "F", "1", " ">>, Boca, <<>>,
              <<>>, <<>>),
     MediaRow(<<"%m/%d/%Y", LedgerDay>>, <<"F", "2">>, Boca, <<>>,
              <<>>, <<"8", "0", ".", "0">>),
     MediaRow(<<"%m/%d/%Y", LedgerDay>>, <<"G", "1">>, Boca, <<>>,
              <<>>, <<>>),
     MediaRow(<<"%m/%d/%Y", LedgerDay>>, <<"F", "1">>, Boca, <<>>,
              <<"2", "6", ".", "0">>, <<"8", "0", ".", "0">>)}

\* the records fetch_all_brightline_fatalities can return, and the records
\* the FRA database holds: those and one of another railroad
BrightlineFatalities ==
    {r \in FraRecordArgs :
        r.incident_number \in {<<"F", "1">>, <<"F", "2">>, <<"F", "4">>}}
FraDatabase ==
    BrightlineFatalities
    \cup {FRARecord(<<"G", "1">>, Some(LedgerDay), Duval, None, Some(27))}

\* the lists a fetch can return ("$order": "date DESC", line 153): each
\* record at most once, a later date before an earlier one
Fetches(S) ==
    {x \in SeqsUpTo(S, Cardinality(S)) :
        \A i, j \in 1..Len(x) :
            i < j => /\ x[i] # x[j]
                     /\ Val(x[i].incident_date) >= Val(x[j].incident_date)}

\* SheetManager.get_all_records of update_coordinates.py, lines 323-333:
\* the Date cell under "%m/%d/%Y", then under "%Y-%m-%d"
parse_date(date_str) ==
    IF Len(date_str) = 0 THEN None
    ELSE IF ~IsNone(strptime(date_str, "%m/%d/%Y"))
         THEN strptime(date_str, "%m/%d/%Y")
         ELSE strptime(date_str, "%Y-%m-%d")

\* lines 318-347: row i of the values below the header is row i + 1
read_sheet_records(rows) ==
    [i \in 1..Len(rows) |->
        SheetRecord(i + 1, parse_date(rows[i].Date), rows[i].DOT,
                    rows[i].Location, rows[i].Age, rows[i].Lat, rows[i].Lon)]

needs_coordinates(sheet_rec) ==
    Len(strip(sheet_rec.lat)) = 0 \/ Len(strip(sheet_rec.lon)) = 0

has_dot_number(sheet_rec) == Len(strip(sheet_rec.dot_incident_num)) > 0

\* fra_by_incident_num.get(dot_num): of the records of one number the dict
\* keeps the last
fra_by_incident_num(records, dot_num) ==
    IF \E i \in 1..Len(records) : records[i].incident_number = dot_num
    THEN Some(records[Max({i \in 1..Len(records) :
                              records[i].incident_number = dot_num})])
    ELSE None

\* fetch_by_incident_number: a record of that number, or None (there is
\* none, or the request failed)
fetch_by_incident_number(dot_num) ==
    {None} \cup {Some(r) : r \in {x \in FraDatabase :
                                     x.incident_number = dot_num}}

\* lines 649-653: the record main looks at for a DOT number
LookedUp(found, dot_num) ==
    IF ~IsNone(found) THEN {found} ELSE fetch_by_incident_number(dot_num)

\* lines 655-660
queued(updates, sheet_rec, fra_rec) ==
    IF /\ ~IsNone(fra_rec)
       /\ Nonzero(Val(fra_rec).latitude)
       /\ Nonzero(Val(fra_rec).longitude)
    THEN Append(updates, <<sheet_rec.row_number, Val(Val(fra_rec).latitude),
                           Val(Val(fra_rec).longitude)>>)
    ELSE updates

\* lines 672-678
reviewed(sheet_rec, matches) ==
    [k \in 1..Len(matches) |->
        [sheet_record |-> sheet_rec, fra_record |-> matches[k][1],
         confidence |-> matches[k][2]]]

\* the Google Maps url of two coordinates
maps_url(lat, lon) == <<"https://www.google.com/maps?q=", lat, ",", lon>>

\* batch_update_coordinates: Lat, Lon and Google Map of every queued row
RECURSIVE batch_update_coordinates(_, _)
batch_update_coordinates(rows, updates) ==
    IF Len(updates) = 0 THEN rows
    ELSE batch_update_coordinates(
            [rows EXCEPT
                ![Head(updates)[1] - 1].Lat = str_float(Head(updates)[2]),
                ![Head(updates)[1] - 1].Lon = str_float(Head(updates)[3]),
                ![Head(updates)[1] - 1].GoogleMap =
                    maps_url(Head(updates)[2], Head(updates)[3])],
            Tail(updates))

\* create_review_sheet, lines 425-451: the cells apply_approved_matches
\* reads, the confidence, and the empty Action cell
review_row(match) ==
    [SheetRow |-> str_int(match.sheet_record.row_number),
     FRAIncident |-> match.fra_record.incident_number,
     FRALatitude |-> IF Nonzero(match.fra_record.latitude)
                     THEN str_float(Val(match.fra_record.latitude))
                     ELSE <<>>,
     FRALongitude |-> IF Nonzero(match.fra_record.longitude)
                      THEN str_float(Val(match.fra_record.longitude))
                      ELSE <<>>,
     Confidence |-> match.confidence,
     Action |-> <<>>]

create_review_sheet(matches) ==
    [k \in 1..Len(matches) |-> review_row(matches[k])]

\* apply_approved_matches.py, line 116
Approvals ==
    {<<"A", "P", "P", "R", "O", "V", "E">>,
     <<"A", "P", "P", "R", "O", "V", "E", "D">>,
     <<"Y", "E", "S">>, <<"Y">>}

\* as is_approved, but any filled Action cell counts as an approval
is_approved_AnyAction(row) ==
    /\ Len(strip(row.Action)) > 0
    /\ ~IsNone(int(row.SheetRow))
    /\ Len(row.FRALatitude) > 0
    /\ Len(row.FRALongitude) > 0
    /\ ~IsNone(float(row.FRALatitude))
    /\ ~IsNone(float(row.FRALongitude))

\* lines 114-136: the review row is taken when its Action, trimmed and in
\* capitals, is an approval, its row number and coordinates parse and
\* neither coordinate cell is empty
is_approved(row) ==
    /\ upper(strip(row.Action)) \in Approvals
    /\ ~IsNone(int(row.SheetRow))
    /\ Len(row.FRALatitude) > 0
    /\ Len(row.FRALongitude) > 0
    /\ ~IsNone(float(row.FRALatitude))
    /\ ~IsNone(float(row.FRALongitude))

approved_match(row) ==
    [row_number |-> Val(int(row.SheetRow)), fra_incident_num |-> row.FRAIncident,
     lat |-> Val(float(row.FRALatitude)), lon |-> Val(float(row.FRALongitude))]

get_approved_matches(review) ==
    [k \in 1..Len(SelectSeq(review, is_approved)) |->
        approved_match(SelectSeq(review, is_approved)[k])]

\* apply_updates, lines 147-161
RECURSIVE apply_updates(_, _)
apply_updates(rows, approved) ==
    IF Len(approved) = 0 THEN rows
    ELSE apply_updates(
            [rows EXCEPT
                ![Head(approved).row_number - 1].DOT =
                    Head(approved).fra_incident_num,
                ![Head(approved).row_number - 1].DOTMatch = <<"Y", "e", "s">>,
                ![Head(approved).row_number - 1].Lat =
                    str_float(Head(approved).lat),
                ![Head(approved).row_number - 1].Lon =
                    str_float(Head(approved).lon),
                ![Head(approved).row_number - 1].GoogleMap =
                    maps_url(Head(approved).lat, Head(approved).lon)],
            Tail(approved))

\* what the reviewer types in an Action cell
ReviewerActions ==
    {<<"A", "P", "P", "R", "O", "V", "E">>,
     <<" ", "a", "p", "p", "r", "o", "v", "e">>,
     <<"R", "E", "J", "E", "C", "T">>,
     <<"Y">>}

\* update_coordinates.py is started on a Media sheet
InitCoords ==
    /\ sheet = <<>>
    /\ existing_records = <<>>
    /\ pool_uid = <<>>
    /\ loaded = 0
    /\ added = <<>>
    /\ pc = "fetch"
    /\ articles = <<>>
    /\ filtered_articles = <<>>
    /\ fra_incidents = <<>>
    /\ idx = 0
    /\ call = NoCall
    /\ config = DefaultConfig
    /\ worksheet \in SeqsUpTo(MediaRows, MaxRows)
    /\ fra_records = <<>>
    /\ sheet_records = <<>>
    /\ coordinate_updates = <<>>
    /\ potential_matches = <<>>
    /\ review_sheet = <<>>

\* lines 619-623: the FRA records are fetched and the sheet is read
FetchAndRead ==
    /\ pc = "fetch"
    /\ fra_records' \in Fetches(BrightlineFatalities)
    /\ sheet_records' = read_sheet_records(worksheet)
    /\ pc' = "rows"
    /\ idx' = 1
    /\ UNCHANGED <<tracker_vars, call, worksheet, coordinate_updates,
                   potential_matches, review_sheet>>

InRowLoop == pc = "rows" /\ idx <= Len(sheet_records)

\* lines 640-642: the row has both coordinates
RowHasCoordinates ==
    /\ InRowLoop
    /\ ~needs_coordinates(sheet_records[idx])
    /\ idx' = idx + 1
    /\ UNCHANGED <<tracker_vars, call, pc, coords_vars>>

\* lines 644-665: the row has a DOT number; its record's coordinates are
\* queued if it has both
RowWithDot ==
    /\ InRowLoop
    /\ needs_coordinates(sheet_records[idx])
    /\ has_dot_number(sheet_records[idx])
    /\ \E fra_rec \in LookedUp(
            fra_by_incident_num(fra_records,
                                strip(sheet_records[idx].dot_incident_num)),
            strip(sheet_records[idx].dot_incident_num)) :
        /\ coordinate_updates' =
                queued(coordinate_updates, sheet_records[idx], fra_rec)
        /\ call' = [op |-> "lookup", sheet_rec |-> sheet_records[idx],
                    fra_rec |-> fra_rec]
    /\ idx' = idx + 1
    /\ UNCHANGED <<tracker_vars, pc, worksheet, fra_records, sheet_records,
                   potential_matches, review_sheet>>

\* lines 666-681: the row has no DOT number; its candidates go to the list
\* for the review sheet
RowWithoutDot ==
    /\ InRowLoop
    /\ needs_coordinates(sheet_records[idx])
    /\ ~has_dot_number(sheet_records[idx])
    /\ potential_matches' =
            potential_matches
            \o reviewed(sheet_records[idx],
                        find_potential_matches(sheet_records[idx],
                                               fra_records))
    /\ call' = [op |-> "find_potential_matches",
                sheet_record |-> sheet_records[idx], records |-> fra_records,
                matches |-> find_potential_matches(sheet_records[idx],
                                                   fra_records)]
    /\ idx' = idx + 1
    /\ UNCHANGED <<tracker_vars, pc, worksheet, fra_records, sheet_records,
                   coordinate_updates, review_sheet>>

\* lines 696-713: the queued coordinates are written, the review sheet is
\* made when there is a candidate
RowsDone ==
    /\ pc = "rows"
    /\ idx > Len(sheet_records)
    /\ worksheet' = batch_update_coordinates(worksheet, coordinate_updates)
    /\ review_sheet' = IF Len(potential_matches) > 0
                       THEN create_review_sheet(potential_matches)
                       ELSE review_sheet
    /\ call' = [op |-> "batch_update_coordinates",
                updates |-> coordinate_updates]
    /\ pc' = "review"
    /\ UNCHANGED <<tracker_vars, idx, fra_records, sheet_records,
                   coordinate_updates, potential_matches>>

\* the reviewer fills an empty Action cell of the review sheet
ReviewerMarks ==
    /\ pc = "review"
    /\ \E k \in 1..Len(review_sheet), action \in ReviewerActions :
        /\ Len(review_sheet[k].Action) = 0
        /\ review_sheet' = [review_sheet EXCEPT ![k].Action = action]
    /\ UNCHANGED <<tracker_vars, pc, idx, call, worksheet, fra_records,
                   sheet_records, coordinate_updates, potential_matches>>

\* apply_approved_matches.main, lines 201-210: nothing is approved
ApplyNothing ==
    /\ pc = "review"
    /\ Len(get_approved_matches(review_sheet)) = 0
    /\ pc' = "applied"
    /\ call' = [op |-> "get_approved_matches", approved |-> <<>>]
    /\ UNCHANGED <<tracker_vars, idx, coords_vars>>

\* lines 223-227: the user does not answer yes or y
ApplyCancelled ==
    /\ pc = "review"
    /\ Len(get_approved_matches(review_sheet)) > 0
    /\ pc' = "applied"
    /\ call' = [op |-> "get_approved_matches",
                approved |-> get_approved_matches(review_sheet)]
    /\ UNCHANGED <<tracker_vars, idx, coords_vars>>

\* lines 229-233: the approved matches are written to the Media sheet
ApplyUpdates ==
    /\ pc = "review"
    /\ Len(get_approved_matches(review_sheet)) > 0
    /\ worksheet' = apply_updates(worksheet,
                                  get_approved_matches(review_sheet))
    /\ pc' = "applied"
    /\ call' = [op |-> "apply_updates",
                approved |-> get_approved_matches(review_sheet)]
    /\ UNCHANGED <<tracker_vars, idx, fra_records, sheet_records,
                   coordinate_updates, potential_matches, review_sheet>>

NextCoords ==
    \/ FetchAndRead
    \/ RowHasCoordinates
    \/ RowWithDot
    \/ RowWithoutDot
    \/ RowsDone
    \/ ReviewerMarks
    \/ ApplyNothing
    \/ ApplyCancelled
    \/ ApplyUpdates

SpecCoords == InitCoords /\ [][NextCoords]_vars

\* ================================================================ claims
\* what the last call was given and what it answered
new == call.new
result == call.result
IsFindMatch == call.op = "find_match"
IsMatch == IsFindMatch /\ result.is_match

\* C1: a record find_match reports as the match never lies more than
\* date_tolerance days from the new record, whatever the other fields are
C1_DateToleranceRespected ==
    IsMatch =>
        LET m == Val(result.matched_record)
        IN /\ ~IsNone(new.incident_date)
           /\ ~IsNone(m.incident_date)
           /\ Val(new.incident_date) - Val(m.incident_date) <= DATE_TOLERANCE_DAYS
           /\ Val(m.incident_date) - Val(new.incident_date) <= DATE_TOLERANCE_DAYS

\* a pool record with the new record's name and city, two days off, and no match
C1_FarDateSimilarFields ==
    /\ IsFindMatch
    /\ ~result.is_match
    /\ ~IsNone(new.incident_date)
    /\ \E i \in 1..Len(existing_records) :
        LET e == existing_records[i]
        IN /\ ~IsNone(e.incident_date)
           /\ Abs(Val(new.incident_date) - Val(e.incident_date)) > DATE_TOLERANCE_DAYS
           /\ name_factor(new, e)[1] = 50
           /\ city_factor(new, e)[1] = 30

\* equal after lower-casing, trimming and stripping trailing slashes
SameIdentifier(a, b) ==
    rstrip(strip(lower(a)), {"/"}) = rstrip(strip(lower(b)), {"/"})

Holders(pool, url) ==
    {i \in 1..Len(pool) :
        \E k \in 1..Len(pool[i].source_urls) :
            SameIdentifier(pool[i].source_urls[k], url)}

\* C2: check_url_exists answers a pool record that holds the identifier
\* whenever one does, and None only when none does
C2_UrlIdentity ==
    call.op = "check_url_exists" =>
        LET holders == Holders(existing_records, call.url)
        IN /\ IsNone(result) <=> holders = {}
           /\ ~IsNone(result) =>
                \E i \in holders : Val(result) = existing_records[i]

\* found through normalization alone, in a record that has no date
C2_FoundByNormalForm ==
    /\ call.op = "check_url_exists"
    /\ ~IsNone(result)
    /\ \A k \in 1..Len(Val(result).source_urls) :
        Val(result).source_urls[k] # call.url
    /\ IsNone(Val(result).incident_date)

\* the row of the sheet that the worksheet has at row_number (row 1 is the
\* header)
RowAt(row_number) == sheet[row_number - 1]

\* C3: the row_number of each pool record names the row of the sheet that
\* holds that record
C3_RowNumberIdentifiesRow ==
    \A i \in 1..Len(existing_records) :
        LET row_number == existing_records[i].row_number
        IN ~IsNone(row_number) =>
            /\ Val(row_number) - 1 \in 1..Len(sheet)
            /\ RowAt(Val(row_number)).uid = pool_uid[i]

\* C4: find_match, check_url_exists and merge_sources leave the pool as it
\* is; only add_record changes it, by putting its record after the others
C4_PoolFrame ==
    [][/\ call'.op \in {"find_match", "check_url_exists", "merge_sources"}
            => existing_records' = existing_records
       /\ existing_records' # existing_records => call'.op = "add_record"
       /\ call'.op = "add_record" =>
            /\ Len(existing_records') = Len(existing_records) + 1
            /\ \A i \in 1..Len(existing_records) :
                existing_records'[i] = existing_records[i]
            /\ existing_records'[Len(existing_records')] = call'.record]_vars

\* add_record has appended to a pool that already held a record
C4_AppendedToPool ==
    /\ call.op = "add_record"
    /\ Len(existing_records) >= 2
    /\ existing_records[Len(existing_records)] = call.record

\* C5: in a run the pool grows only in the step that inserts the record's
\* draft row, by that record with the row number add_draft_record returned;
\* the step in which add_draft_record raises leaves the pool as it is
C5_AddAfterPersist ==
    [][/\ existing_records' # existing_records =>
            /\ Len(sheet') = Len(sheet) + 1
            /\ sheet' = add_draft_record(sheet, sheet'[1])
            /\ Len(existing_records') = Len(existing_records) + 1
            /\ SubSeq(existing_records', 1, Len(existing_records))
                   = existing_records
            /\ existing_records'[Len(existing_records')]
                   = [call'.new EXCEPT !.row_number = Some(DraftRowNumber)]
            /\ sheet'[1].uid = pool_uid'[Len(existing_records')]
       /\ pc' = "crashed" =>
            /\ existing_records' = existing_records
            /\ sheet' = sheet]_vars

\* a run that added one draft and its record, then failed to persist a
\* second one: the pool holds the ledger's records and the first one only
C5_SecondDraftFailed ==
    /\ pc = "crashed"
    /\ IsFindMatch
    /\ ~result.is_match
    /\ Len(added) = 1
    /\ Len(sheet) = loaded + 1
    /\ Len(existing_records) = loaded + 1
    /\ existing_records[Len(existing_records)] = added[1]

\* C6: a record given to add_record is a candidate of every later find_match:
\* a new record within tolerance of it that scores 40 or more with it is
\* reported as a match, with a score at least that high
C6_AddedRecordIsCandidate ==
    IsFindMatch =>
        \A k \in 1..Len(added) :
            LET r == added[k]
            IN (/\ ~IsNone(r.incident_date)
                /\ ~IsNone(new.incident_date)
                /\ Abs(Val(new.incident_date) - Val(r.incident_date))
                       <= DATE_TOLERANCE_DAYS
                /\ pair_score(new, r).score >= 40)
               => /\ result.is_match
                  /\ result.match_score >= pair_score(new, r).score

\* a match with a record that add_record put in a pool built from an empty ledger
C6_MatchedAddedRecord ==
    /\ IsMatch
    /\ loaded = 0
    /\ \E k \in 1..Len(added) : Val(result.matched_record) = added[k]

\* C7: in the second loop of process_news_articles, whenever find_match is
\* invoked for an article, no pool record holds that article's url
C7_UrlNeverInPoolWhenScored ==
    [][(ProcessMatched \/ ProcessNewDraft \/ ProcessDraftFails)
            => Holders(existing_records, filtered_articles[idx]) = {}]_vars

NoTwoSame(urls) ==
    \A i, j \in 1..Len(urls) : i # j => ~SameIdentifier(urls[i], urls[j])

\* the first occurrence of each normal form of urls, in order
FirstOccurrences(urls) ==
    SelectSeq([i \in 1..Len(urls) |-> <<i, urls[i]>>],
              LAMBDA p : \A j \in 1..(p[1] - 1) : ~SameIdentifier(urls[j], p[2]))

\* C8: no identifier list holds two entries equal after normalization: not
\* the source_urls of a pool record, built from a Source cell or added, nor a
\* list merge_sources returns, which keeps first occurrences in order
C8_NoDuplicateIdentifiers ==
    /\ \A i \in 1..Len(existing_records) :
        NoTwoSame(existing_records[i].source_urls)
    /\ call.op = "merge_sources" =>
        /\ NoTwoSame(result)
        /\ LET all_urls == call.existing.source_urls \o call.new_sources
               firsts == FirstOccurrences(all_urls)
           IN result = [k \in 1..Len(firsts) |-> firsts[k][2]]

\* C9: a match has a score of 40 or more and, besides the date entry, a
\* name, name_partial, city or location entry in its trace
C9_DateAloneNeverMatches ==
    IsMatch =>
        /\ result.match_score >= 40
        /\ \E k \in 1..Len(result.match_factors) :
            result.match_factors[k] = <<"date">>
        /\ \E k \in 1..Len(result.match_factors) :
            result.match_factors[k][1]
                \in {"name", "name_partial", "city", "location"}

\* a pool record of the new record's exact date with nothing else in common,
\* and no match
C9_ExactDateOnly ==
    /\ IsFindMatch
    /\ ~result.is_match
    /\ ~IsNone(new.incident_date)
    /\ \E i \in 1..Len(existing_records) :
        /\ existing_records[i].incident_date = new.incident_date
        /\ pair_score(new, existing_records[i]).match_factors = << <<"date">> >>

\* the score and trace C10 states for a pair inside the date window
C10_Claimed(n, e) ==
    LET both(a, b) == ~IsNone(a) /\ ~IsNone(b) /\ Val(a) # <<>> /\ Val(b) # <<>>
        full(a, b) == ratio(strip(lower(Val(a))), strip(lower(Val(b))))
        part(a, b) == partial_ratio(lower(Val(a)), lower(Val(b)))
        dateP == IF n.incident_date = e.incident_date THEN 25 ELSE 15
        nameF ==
            IF ~both(n.victim_name, e.victim_name) THEN <<0, <<>> >>
            ELSE IF full(n.victim_name, e.victim_name) >= NAME_SIMILARITY_THRESHOLD
            THEN <<50, << <<"name", full(n.victim_name, e.victim_name)>> >> >>
            ELSE IF /\ full(n.victim_name, e.victim_name) >= 70
                    /\ part(n.victim_name, e.victim_name) >= 90
            THEN <<35, << <<"name_partial", part(n.victim_name, e.victim_name)>> >> >>
            ELSE <<0, <<>> >>
        cityF ==
            IF /\ both(n.location_city, e.location_city)
               /\ full(n.location_city, e.location_city)
                      >= LOCATION_SIMILARITY_THRESHOLD
            THEN <<30, << <<"city", full(n.location_city, e.location_city)>> >> >>
            ELSE <<0, <<>> >>
        locF ==
            IF /\ both(n.location_full, e.location_full)
               /\ part(n.location_full, e.location_full)
                      >= LOCATION_SIMILARITY_THRESHOLD
            THEN <<20, << <<"location", part(n.location_full, e.location_full)>> >> >>
            ELSE <<0, <<>> >>
    IN [score |-> dateP + nameF[1] + cityF[1] + locF[1],
        match_factors |-> << <<"date">> >> \o nameF[2] \o cityF[2] \o locF[2]]

CandidateIndexes ==
    {i \in 1..Len(existing_records) :
        /\ ~IsNone(existing_records[i].incident_date)
        /\ Abs(Val(new.incident_date) - Val(existing_records[i].incident_date))
               <= DATE_TOLERANCE_DAYS
        /\ C10_Claimed(new, existing_records[i]).score >= 40}

\* C12: when the pool has a candidate, the result is a match with the
\* candidate of maximum score that comes first in the pool
C12_FirstOfMaximumScore ==
    (IsFindMatch /\ ~IsNone(new.incident_date) /\ CandidateIndexes # {}) =>
        /\ result.is_match
        /\ \E i \in CandidateIndexes :
            /\ Val(result.matched_record) = existing_records[i]
            /\ result.match_score = C10_Claimed(new, existing_records[i]).score
            /\ \A j \in CandidateIndexes :
                /\ C10_Claimed(new, existing_records[j]).score
                       <= result.match_score
                /\ C10_Claimed(new, existing_records[j]).score
                       = result.match_score => i <= j

\* two different pool records tie at the maximum, the later one put there by
\* add_record: the earlier one is the match
C12_TieKeepsEarlier ==
    /\ IsMatch
    /\ Len(existing_records) = 2
    /\ loaded = 1
    /\ existing_records[1] # existing_records[2]
    /\ CandidateIndexes = {1, 2}
    /\ C10_Claimed(new, existing_records[1]).score
           = C10_Claimed(new, existing_records[2]).score
    /\ Val(result.matched_record) = existing_records[1]

\* the similarities of a pair: None when either side lacks the field
NameRatio(n, e) ==
    IF Truthy(n.victim_name) /\ Truthy(e.victim_name)
    THEN Some(ratio(strip(lower(Val(n.victim_name))),
                    strip(lower(Val(e.victim_name)))))
    ELSE None

CityRatio(n, e) ==
    IF Truthy(n.location_city) /\ Truthy(e.location_city)
    THEN Some(ratio(strip(lower(Val(n.location_city))),
                    strip(lower(Val(e.location_city)))))
    ELSE None

FullLocationRatio(n, e) ==
    IF Truthy(n.location_full) /\ Truthy(e.location_full)
    THEN Some(partial_ratio(lower(Val(n.location_full)),
                            lower(Val(e.location_full))))
    ELSE None

\* the pool indexes a dated new record is scored against
ScoredIndexes ==
    {i \in 1..Len(existing_records) :
        /\ ~IsNone(existing_records[i].incident_date)
        /\ Abs(Val(new.incident_date) - Val(existing_records[i].incident_date))
               <= DATE_TOLERANCE_DAYS}

\* C13: of two pool records scored against the new record with the same
\* date difference, city similarity and full-location similarity, the one
\* whose name full-ratio is not lower has a composite score that is not lower
C13_NameMonotone ==
    (IsFindMatch /\ ~IsNone(new.incident_date)) =>
        \A i, j \in ScoredIndexes :
            LET a == existing_records[i]
                b == existing_records[j]
            IN (/\ date_diff(new, a) = date_diff(new, b)
                /\ CityRatio(new, a) = CityRatio(new, b)
                /\ FullLocationRatio(new, a) = FullLocationRatio(new, b)
                /\ ~IsNone(NameRatio(new, a))
                /\ ~IsNone(NameRatio(new, b))
                /\ Val(NameRatio(new, b)) >= Val(NameRatio(new, a)))
               => pair_score(new, b).score >= pair_score(new, a).score

C15_MissingDate ==
    (IsFindMatch /\ IsNone(new.incident_date)) =>
        /\ result.is_match = FALSE
        /\ result.match_type = "no_match"
        /\ result.matched_record = None
        /\ result.match_score = 0
        /\ result.match_factors = << <<"missing_date">> >>

\* a new record without a date, the pool holding a dated record of its name
\* and city
C15_UndatedNewLookalike ==
    /\ IsFindMatch
    /\ IsNone(new.incident_date)
    /\ result.match_factors = << <<"missing_date">> >>
    /\ \E i \in 1..Len(existing_records) :
        /\ ~IsNone(existing_records[i].incident_date)
        /\ existing_records[i].victim_name = new.victim_name
        /\ existing_records[i].location_city = new.location_city
        /\ Truthy(new.victim_name)
        /\ Truthy(new.location_city)

\* a Date cell from_sheet_record reads no date from
Unparseable(cell) == cell = <<>> \/ cell[1] \notin {"%m/%d/%Y", "%m/%d/%y"}

\* C16: the matched record always has a date; a pool record built from a
\* row whose Date cell is empty or in neither format is never the match
C16_UndatedNeverMatched ==
    IsMatch =>
        /\ ~IsNone(Val(result.matched_record).incident_date)
        /\ \A i \in 1..loaded :
            Unparseable(sheet[i].Date) =>
                Val(result.matched_record) # existing_records[i]

\* the pool's one record comes from a row dated in ISO format, the new
\* record has its day, name and city: no match
C16_IsoDatedRowLookalike ==
    /\ IsFindMatch
    /\ ~result.is_match
    /\ loaded = 1
    /\ Len(existing_records) = 1
    /\ sheet[1].Date = <<"%Y-%m-%d", 2>>
    /\ new.incident_date = Some(2)
    /\ new.victim_name = existing_records[1].victim_name
    /\ CityRatio(new, existing_records[1]) = Some(100)

\* C17: a pool record one day from the new record, with no city and no
\* full-location factor, whose name has a full-ratio below name_threshold
\* and a partial-ratio of 90 or more, scores 15 + 35 = 50 with a name_partial
\* entry and makes the result a match, of type "date_name" when it is the
\* only record; "J. Smith" against "John Smith" is such a pair
C17_PartialNamePath ==
    (IsFindMatch /\ ~IsNone(new.incident_date)) =>
        \A i \in ScoredIndexes :
            LET e == existing_records[i]
            IN (/\ date_diff(new, e) = 1
                /\ IsNone(CityRatio(new, e))
                /\ IsNone(FullLocationRatio(new, e))
                /\ ~IsNone(NameRatio(new, e))
                /\ Val(NameRatio(new, e)) < NAME_SIMILARITY_THRESHOLD
                /\ \/ partial_ratio(lower(Val(new.victim_name)),
                                    lower(Val(e.victim_name))) >= 90
                   \/ new.victim_name = Some(JSmith)
                      /\ e.victim_name = Some(JohnSmith))
               => /\ pair_score(new, e).score = 50
                  /\ pair_score(new, e).match_factors[2][1] = "name_partial"
                  /\ result.is_match
                  /\ Len(existing_records) = 1 =>
                        /\ result.match_score = 50
                        /\ result.match_type = "date_name"

\* a url without its tracking parameters, the case of its host and its
\* trailing slashes
WithoutTracking(url) == rstrip(normalize_url(strip(url)), {"/"})

\* C18: check_url_exists finds a pool record that holds the url up to the
\* case of the host, a trailing slash and tracking query parameters
C18_SameUpToTracking ==
    call.op = "check_url_exists" =>
        ((\E i \in 1..Len(existing_records) :
            \E k \in 1..Len(existing_records[i].source_urls) :
                WithoutTracking(existing_records[i].source_urls[k])
                    = WithoutTracking(call.url))
         => ~IsNone(result))

\* C19: when the new record has a date and no pool record is a candidate,
\* find_match answers no match, type "no_match", no record, score 0 and an
\* empty trace; a result that is no match never has a record or a score
C19_NoCandidate ==
    /\ (IsFindMatch /\ ~IsNone(new.incident_date) /\ CandidateIndexes = {}) =>
        /\ result.is_match = FALSE
        /\ result.match_type = "no_match"
        /\ result.matched_record = None
        /\ result.match_score = 0
        /\ result.match_factors = <<>>
    /\ (IsFindMatch /\ ~result.is_match) =>
        /\ result.matched_record = None
        /\ result.match_score = 0

\* two pool records, one of them scored, none a candidate
C19_NothingClearsGate ==
    /\ IsFindMatch
    /\ ~IsNone(new.incident_date)
    /\ Len(existing_records) = 2
    /\ ScoredIndexes # {}
    /\ CandidateIndexes = {}
    /\ result.match_type = "no_match"
    /\ result.match_factors = <<>>

\* C20: no find_match runs in a Deduplicator whose date_tolerance,
\* name_threshold or location_threshold is negative
C20_FindMatchOnlyWithValidConfig ==
    IsFindMatch =>
        /\ config.date_tolerance >= 0
        /\ config.name_threshold >= 0
        /\ config.location_threshold >= 0

\* ------------------------------------------- find_potential_matches
\* what the last call of find_potential_matches was given and answered
IsFindPotentialMatches == call.op = "find_potential_matches"
Dated == ~IsNone(call.sheet_record.date_obj)
DaysOff(fra) == Abs(Val(call.sheet_record.date_obj) - Val(fra.incident_date))
SameDay ==
    {i \in 1..Len(call.records) :
        call.records[i].incident_date = call.sheet_record.date_obj}
OneDayOff ==
    {i \in 1..Len(call.records) :
        /\ ~IsNone(call.records[i].incident_date)
        /\ DaysOff(call.records[i]) = 1}
Tier(candidate) == candidate[2][1]
HasPiece(candidate, pieces) ==
    \E k \in 1..Len(candidate[2]) : candidate[2][k] \in pieces
HasTier(tier) ==
    \E k \in 1..Len(call.matches) : Tier(call.matches[k]) = tier
AgesPresentAndEqual(ledger, fra) ==
    /\ Len(ledger.age) > 0
    /\ ~IsNone(fra.age_of_person)
    /\ int(ledger.age) = fra.age_of_person

\* C21: when exactly one government record has the ledger record's date,
\* the result is that record alone, labelled VERY HIGH, with "+ age match"
\* exactly when both ages are present and equal and "+ location match"
\* exactly when location_matches_county(ledger city, record county) holds
C21_OnlyRecordOfTheDay ==
    (IsFindPotentialMatches /\ Dated /\ Cardinality(SameDay) = 1) =>
        /\ Len(call.matches) = 1
        /\ \A i \in SameDay :
            /\ call.matches[1][1] = call.records[i]
            /\ Tier(call.matches[1]) = "VERY HIGH"
            /\ HasPiece(call.matches[1], {" + age match"})
                <=> AgesPresentAndEqual(call.sheet_record, call.records[i])
            /\ HasPiece(call.matches[1], {" + location match"})
                <=> location_matches_county(call.sheet_record.location,
                                            call.records[i].county_name)

\* C22: when two or more government records have the ledger record's date,
\* the result is those records, all of them and no other, in the order
\* given, each labelled HIGH
C22_TiedSameDayAllSurfaced ==
    (IsFindPotentialMatches /\ Dated /\ Cardinality(SameDay) >= 2) =>
        /\ Len(call.matches) = Cardinality(SameDay)
        /\ \A i \in SameDay :
            /\ call.matches[Cardinality({j \in SameDay : j <= i})][1]
                    = call.records[i]
            /\ Tier(call.matches[Cardinality({j \in SameDay : j <= i})])
                    = "HIGH"

\* C22 witness: several records of the day, one of them returned with
\* neither its location nor its age matching
C22_TiedUncorroborated ==
    /\ IsFindPotentialMatches
    /\ Dated
    /\ Cardinality(SameDay) >= 2
    /\ \E k \in 1..Len(call.matches) :
        call.matches[k][2] = <<"HIGH", " - Exact date match">>

\* C23: MEDIUM candidates are returned only when no government record has
\* the exact date, LOW candidates only when none has the exact date and
\* none is one day off; no result holds both a MEDIUM and a LOW candidate
C23_TiersExclusive ==
    (IsFindPotentialMatches /\ Dated) =>
        /\ HasTier("MEDIUM") => SameDay = {}
        /\ HasTier("LOW") => (SameDay = {} /\ OneDayOff = {})
        /\ ~(HasTier("MEDIUM") /\ HasTier("LOW"))

\* what the last call of location_matches_county was given and answered
IsLocationMatchesCounty == call.op = "location_matches_county"

\* the condition C25 gives, on the lower-cased and trimmed city and county
C25_Claimed(city, county) ==
    \/ IsSubstring(city, county)
    \/ IsSubstring(county, city)
    \/ \E k \in 1..Len(FLORIDA_COUNTY_CITIES) :
          /\ IsSubstring(FLORIDA_COUNTY_CITIES[k].county_key, county)
          /\ city \in FLORIDA_COUNTY_CITIES[k].cities

\* C25: location_matches_county is true exactly when, lower-cased and
\* trimmed, the city is a substring of the county or the county of the
\* city, or the city is a member of the city set of a county key that is a
\* substring of the county
C25_SubstringOrMember ==
    IsLocationMatchesCounty =>
        (call.result <=> C25_Claimed(strip(lower(call.city)),
                                     strip(lower(call.county))))

\* C26: no candidate without a parsed ledger date or without a government
\* record within 3 days; every candidate is dated and within 3 days; every
\* LOW candidate is 2 or 3 days off and passes location_matches_county
C26_WithinThreeDays ==
    IsFindPotentialMatches =>
        /\ ~Dated => call.matches = <<>>
        /\ Dated =>
            /\ (\A i \in 1..Len(call.records) :
                    \/ IsNone(call.records[i].incident_date)
                    \/ DaysOff(call.records[i]) > 3)
                => call.matches = <<>>
            /\ \A k \in 1..Len(call.matches) :
                /\ ~IsNone(call.matches[k][1].incident_date)
                /\ DaysOff(call.matches[k][1]) <= 3
                /\ Tier(call.matches[k]) = "LOW" =>
                    /\ DaysOff(call.matches[k][1]) \in {2, 3}
                    /\ location_matches_county(
                            call.sheet_record.location,
                            call.matches[k][1].county_name)

\* C26 witness: a LOW candidate three days off, beside records that are
\* four days off or undated
C26_LowThreeDaysOff ==
    /\ IsFindPotentialMatches
    /\ Dated
    /\ \E k \in 1..Len(call.matches) :
        /\ Tier(call.matches[k]) = "LOW"
        /\ DaysOff(call.matches[k][1]) = 3
    /\ \E i \in 1..Len(call.records) :
        \/ IsNone(call.records[i].incident_date)
        \/ DaysOff(call.records[i]) > 3

\* the label of the candidate names the location as matching
LocationCorroborated(candidate) ==
    HasPiece(candidate, {" + location match", "location match",
                         " days + location match"})

\* the ledger record of the call has no city
EmptyLocation == Len(strip(call.sheet_record.location)) = 0

\* location_matches_county answers true for an empty or blank city and for
\* an empty county; with no ledger city every exact-date and one-day-off
\* candidate carries the location corroboration
EmptyMatchesAll ==
    /\ IsLocationMatchesCounty =>
        ((Len(strip(call.city)) = 0 \/ Len(call.county) = 0) => call.result)
    /\ (IsFindPotentialMatches /\ Dated /\ EmptyLocation) =>
        \A k \in 1..Len(call.matches) :
            Tier(call.matches[k]) \in {"VERY HIGH", "HIGH", "MEDIUM"} =>
                LocationCorroborated(call.matches[k])

\* every government record 2 or 3 days off is returned as a LOW candidate
FarRecordsAreLow ==
    \A i \in 1..Len(call.records) :
        (/\ ~IsNone(call.records[i].incident_date)
         /\ DaysOff(call.records[i]) \in {2, 3}) =>
            \E k \in 1..Len(call.matches) :
                /\ call.matches[k][1] = call.records[i]
                /\ Tier(call.matches[k]) = "LOW"

\* C30 as stated: location_matches_county is true for an empty or blank
\* city and for an empty county; so, for a ledger record without a city,
\* every exact-date and one-day-off candidate carries the location
\* corroboration and every government record 2 or 3 days off is returned as
\* a LOW candidate
C30_EmptyLocationAsStated ==
    /\ EmptyMatchesAll
    /\ (IsFindPotentialMatches /\ Dated /\ EmptyLocation) => FarRecordsAreLow

\* C30 amended: the same, the records 2 or 3 days off being returned when no
\* government record has the ledger record's exact date
C30_EmptyLocation ==
    /\ EmptyMatchesAll
    /\ (IsFindPotentialMatches /\ Dated /\ EmptyLocation /\ SameDay = {})
            => FarRecordsAreLow

\* C30 witness: no ledger city, no record of the day, and a record of a
\* county the table does not have, three days off, returned as LOW beside
\* a MEDIUM candidate
C30_BlankCityLow ==
    /\ IsFindPotentialMatches
    /\ Dated
    /\ EmptyLocation
    /\ SameDay = {}
    /\ HasTier("MEDIUM")
    /\ \E k \in 1..Len(call.matches) :
        /\ Tier(call.matches[k]) = "LOW"
        /\ call.matches[k][1].county_name = Duval
        /\ DaysOff(call.matches[k][1]) = 3

\* ------------------------------------------------- the gate of find_match
\* the factor of the pair cleared its threshold
NameCleared(n, e) ==
    /\ ~IsNone(NameRatio(n, e))
    /\ \/ Val(NameRatio(n, e)) >= NAME_SIMILARITY_THRESHOLD
       \/ /\ Val(NameRatio(n, e)) >= 70
          /\ partial_ratio(lower(Val(n.victim_name)),
                           lower(Val(e.victim_name))) >= 90
CityCleared(n, e) ==
    /\ ~IsNone(CityRatio(n, e))
    /\ Val(CityRatio(n, e)) >= LOCATION_SIMILARITY_THRESHOLD
FullLocationCleared(n, e) ==
    /\ ~IsNone(FullLocationRatio(n, e))
    /\ Val(FullLocationRatio(n, e)) >= LOCATION_SIMILARITY_THRESHOLD

\* one day off, and the full location is the only factor that cleared
OnlyFullLocation(n, e) ==
    /\ date_diff(n, e) = 1
    /\ FullLocationCleared(n, e)
    /\ ~NameCleared(n, e)
    /\ ~CityCleared(n, e)

\* C27: a pair one day apart whose only cleared factor is the full location
\* scores 35 and is not reported as the match; every other pair inside the
\* date window with a cleared factor scores 40 or more
C27_FullLocationAloneBelowGate ==
    (IsFindMatch /\ ~IsNone(new.incident_date)) =>
        \A i \in ScoredIndexes :
            /\ OnlyFullLocation(new, existing_records[i]) =>
                /\ pair_score(new, existing_records[i]).score = 35
                /\ result.matched_record # Some(existing_records[i])
                /\ Len(existing_records) = 1 => ~result.is_match
            /\ (/\ ~OnlyFullLocation(new, existing_records[i])
                /\ \/ NameCleared(new, existing_records[i])
                   \/ CityCleared(new, existing_records[i])
                   \/ FullLocationCleared(new, existing_records[i]))
               => pair_score(new, existing_records[i]).score >= 40

\* C27 witness: no match for a new record whose full location is that of
\* the only pool record, dated the day after
C27_NoMatchAtThirtyFive ==
    /\ IsFindMatch
    /\ ~result.is_match
    /\ ~IsNone(new.incident_date)
    /\ Len(existing_records) = 1
    /\ ScoredIndexes = {1}
    /\ OnlyFullLocation(new, existing_records[1])

\* --------------------------------------------------- the government pass
\* a pass of the loop of process_fra_data
FraStep == FraMatched \/ FraNewDraft \/ FraDraftFails

\* the row that row_number names holds the record's DOT cells after the
\* step, and nothing else of the sheet has changed
DotCellsWritten(row_number, fra) ==
    /\ Len(sheet') = Len(sheet)
    /\ row_number - 1 \in 1..Len(sheet)
    /\ sheet'[row_number - 1] =
            [sheet[row_number - 1] EXCEPT !.DOT = fra.incident_number,
                                          !.DOTMatch = "Yes",
                                          !.Lat = fra.latitude,
                                          !.Lon = fra.longitude]
    /\ \A k \in 1..Len(sheet) : k # row_number - 1 => sheet'[k] = sheet[k]

\* the record's draft is the new row under the header and the record has
\* joined the pool
FraDraftAppended(fra) ==
    /\ Len(sheet') = Len(sheet) + 1
    /\ SubSeq(sheet', 2, Len(sheet')) = sheet
    /\ sheet'[1].DOT = fra.incident_number
    /\ sheet'[1].DOTMatch = "Yes"
    /\ sheet'[1].Location = fra.county_name
    /\ sheet'[1].Name = <<>>
    /\ Len(existing_records') = Len(existing_records) + 1
    /\ existing_records'[Len(existing_records')].incident_date
            = fra.incident_date

NewsStep == ProcessMatched \/ ProcessNewDraft \/ ProcessDraftFails

\* the incident's draft is the new row under the header, without a date, and
\* the record has joined the pool behind the others
DatelessDraftAppended(incident, url) ==
    /\ Len(sheet') = Len(sheet) + 1
    /\ SubSeq(sheet', 2, Len(sheet')) = sheet
    /\ sheet'[1].Date = <<>>
    /\ sheet'[1].Name = Cell(incident.victim_name)
    /\ sheet'[1].Location = Cell(incident.location_city)
    /\ sheet'[1].Source = url
    /\ existing_records' =
            Append(existing_records,
                   [incident EXCEPT !.row_number = Some(DraftRowNumber)])

\* C29: in the second loop of process_news_articles an incident without a
\* date always gets the no_match answer of a missing date, and the pass
\* inserts its draft and appends it to the pool (or ends the run when the
\* insert raises), so each such incident adds one row; and no find_match of
\* the run ever reports a record without a date as the match
C29_DatelessAlwaysDrafted ==
    [][/\ (NewsStep /\ IsNone(call'.new.incident_date)) =>
            /\ ~call'.result.is_match
            /\ call'.result.match_type = "no_match"
            /\ call'.result.match_factors = << <<"missing_date">> >>
            /\ \/ pc' = "crashed" /\ sheet' = sheet
               \/ DatelessDraftAppended(call'.new, filtered_articles[idx])
       /\ (call'.op = "find_match" /\ call'.result.is_match) =>
            ~IsNone(Val(call'.result.matched_record).incident_date)]_vars

\* C29 witness: two articles gave an incident without a date, of the same
\* name and city, and the sheet has a draft for each
C29_TwoDatelessDrafts ==
    /\ pc = "process"
    /\ loaded = 0
    /\ Len(added) = 2
    /\ Len(sheet) = 2
    /\ Len(existing_records) = 2
    /\ \A k \in 1..2 :
        /\ IsNone(added[k].incident_date)
        /\ added[k].victim_name = Some(<<"a", "b", "c">>)
        /\ added[k].location_city = Some(<<"m", "i">>)
        /\ sheet[k].Date = <<>>
        /\ sheet[k].Name = <<"a", "b", "c">>
    /\ sheet[1].Source # sheet[2].Source

\* ------------------------------------------ the two coordinate scripts
\* the row lacks Lat or Lon and carries the DOT number of a government
\* record that has the coordinates of the update
QueuedRow(row, update) ==
    /\ (Len(strip(row.Lat)) = 0 \/ Len(strip(row.Lon)) = 0)
    /\ Len(strip(row.DOT)) > 0
    /\ \E g \in FraDatabase :
        /\ g.incident_number = strip(row.DOT)
        /\ g.latitude = Some(update[2])
        /\ g.longitude = Some(update[3])

\* a step of update_coordinates.main: every update it queues is for such a
\* row, and it leaves every row without a DOT number as it is
CoordinatesStep ==
    (pc \in {"fetch", "rows"}) =>
        /\ \A k \in 1..Len(coordinate_updates') :
            k > Len(coordinate_updates) =>
                QueuedRow(worksheet[coordinate_updates'[k][1] - 1],
                          coordinate_updates'[k])
        /\ \A r \in 1..Len(worksheet) :
            Len(strip(worksheet[r].DOT)) = 0 => worksheet'[r] = worksheet[r]

\* the review rows that name row r of the Media sheet
ReviewRowsOf(r) ==
    {k \in 1..Len(review_sheet) : int(review_sheet[k].SheetRow) = Some(r + 1)}

\* C24 as stated: update_coordinates.main queues a coordinate update only
\* for a row that lacks Lat or Lon and carries a DOT number whose government
\* record has coordinates, and writes no row without a DOT number;
\* apply_approved_matches writes a Media row only for a review row whose
\* Action is one of APPROVE, APPROVED, YES, Y
C24_WritesOnlyOnApprovalAsTyped ==
    [][/\ CoordinatesStep
       /\ (pc = "review") =>
            \A r \in 1..Len(worksheet) :
                worksheet'[r] # worksheet[r] =>
                    \E k \in ReviewRowsOf(r) :
                        review_sheet[k].Action \in Approvals]_vars

\* C24 amended: the same, the Action being compared after it is trimmed
\* and put in capitals
C24_WritesOnlyOnApproval ==
    [][/\ CoordinatesStep
       /\ (pc = "review") =>
            \A r \in 1..Len(worksheet) :
                worksheet'[r] # worksheet[r] =>
                    \E k \in ReviewRowsOf(r) :
                        upper(strip(review_sheet[k].Action)) \in Approvals]_vars

\* C24 witness: a queued update was written to a row with a DOT number, a
\* row without one got a review row, and the approved candidate was applied
C24_QueuedAndApplied ==
    /\ pc = "applied"
    /\ call.op = "apply_updates"
    /\ Len(coordinate_updates) > 0
    /\ \E k \in 1..Len(review_sheet) :
        /\ upper(strip(review_sheet[k].Action)) \in Approvals
        /\ worksheet[Val(int(review_sheet[k].SheetRow)) - 1].DOT
                = review_sheet[k].FRAIncident

====
